---- MODULE Spec2Model ----
(***************************************************************************)
(* Decision layer of the pokeagent speedrun agent: the process-wide action *)
(* queue, the sequential goal tracker (agent/deprecated/memory.py) and the *)
(* per-step arbiter PlanningModule.decide (agent/deprecated/planning.py).  *)
(***************************************************************************)
EXTENDS Integers, Sequences, FiniteSets, TLC

\* ------------------------------------------------------------------------
\* Bounds of the model (not program constants)
\* ------------------------------------------------------------------------
MaxQueue == 3
MaxHist == 3
MaxRun == 3
MaxDecideQueue == 8
MaxStreak == 61
MaxShortStreak == 2

\* ------------------------------------------------------------------------
\* Program constants
\* ------------------------------------------------------------------------
None == "None"

\* no file at save_path
NoFile == [exists |-> FALSE]

\* memory.py:11  _ALLOWED_BTNS
ALLOWED_BTNS == {"UP", "DOWN", "LEFT", "RIGHT", "A", "B", "START"}

\* action.py:8  VALID_BUTTONS
VALID_BUTTONS == {"A", "B", "START", "SELECT", "UP", "DOWN", "LEFT", "RIGHT"}

Directions == {"UP", "DOWN", "LEFT", "RIGHT"}

\* planning.py:11-24  DEFAULT_EMERALD_LT_PLAN (ids, in list order)
GoalIds == << "start_game", "leave_the_truck", "go_upstairs",
              "player_bedroom_entered", "set_bedroom_clock",
              "return_downstairs", "exit_player_house", "go_to_birch_lab",
              "find_route_101", "find_professor_birch", "choose_starter",
              "rustboro_gym_challenge" >>

NGoals == Len(GoalIds)

\* ------------------------------------------------------------------------
\* State
\* ------------------------------------------------------------------------
VARIABLES
    queue,        \* _GLOBAL_PENDING
    status,       \* status field of every goal dict of long_term_plan
    current,      \* state["current_goal"]: index of the goal dict, 0 = None
    last_action,  \* state["last_action"]
    location,     \* state["location"]
    rf,           \* memory._runtime_flags
    naming_handled,   \* state["naming_handled"]
    explored_map,     \* state["explored_map"]: per map name, the tiles in insertion order
    entry_coords,     \* memory._entry_coords_by_map
    failed_movements, \* memory.failed_movements
    last_coords,      \* memory._last_coords
    oa,           \* the openai variant: long_term_plan status, _naming_handled,
                  \* context_cache and _PENDING_SHADOW of its PlanningModule
    perc,         \* PerceptionModule.analyze: the observation and oracle reply
                  \* given to it and what it returned
    disk,         \* the file at save_path: the document written by save
    callers,      \* concurrent callers of complete_current_goal: where each
                  \* one stands in the call
    default_plan, \* the goal dicts of the module-level DEFAULT_EMERALD_LT_PLAN:
                  \* their status, and whether the plan of the memory module
                  \* holds these very dicts
    ret,          \* what the last operation returned
    hist          \* history variables: what has been done so far

mapVars == << naming_handled, explored_map, entry_coords, failed_movements, last_coords, oa,
             perc, disk, callers >>
progVars == << queue, status, current, last_action, location, rf, mapVars >>
vars == << queue, status, current, last_action, location, rf, naming_handled,
          explored_map, entry_coords, failed_movements, last_coords, oa, perc, disk,
          callers, default_plan, ret, hist >>

\* ------------------------------------------------------------------------
\* Generic helpers
\* ------------------------------------------------------------------------
RECURSIVE SeqsUpTo(_, _)
SeqsUpTo(S, n) ==
    IF n = 0 THEN { <<>> }
    ELSE LET shorter == SeqsUpTo(S, n - 1)
         IN  shorter \cup { Append(q, x) : q \in { r \in shorter : Len(r) = n - 1 }, x \in S }

\* ------------------------------------------------------------------------
\* Action queue (memory.py:10-88)
\* ------------------------------------------------------------------------
\* Raw tokens callers hand to enqueue_actions: buttons, the WAIT sentinel,
\* a lower-case padded spelling and a token of no vocabulary.
RawTokens == {"UP", "LEFT", "A", "START", "SELECT", "WAIT", " up ", "x"}

\* str(a).strip().upper() on the raw tokens above
StripUpper(a) == IF a = " up " THEN "UP" ELSE IF a = "x" THEN "X" ELSE a

\* _normalize_primitives: keep, in order, the normalised tokens that are in
\* _ALLOWED_BTNS.  A scalar argument is the one-element list.
RECURSIVE NormalizePrimitives(_)
NormalizePrimitives(actions) ==
    IF actions = <<>> THEN <<>>
    ELSE LET s == StripUpper(Head(actions))
             rest == NormalizePrimitives(Tail(actions))
         IN  IF s \in ALLOWED_BTNS THEN <<s>> \o rest ELSE rest

\* a queue that takes new tokens at its head
Enqueued_AtHead(q, actions) == NormalizePrimitives(actions) \o q

\* enqueue_actions on a queue value: extend at the tail
Enqueued(q, actions) == q \o NormalizePrimitives(actions)

\* a pop that takes the newest token
PopHead_Newest(q) == IF q # <<>> THEN q[Len(q)] ELSE None

\* pop_next_action on a queue value: the head, and the rest
PopHead(q) == IF q # <<>> THEN Head(q) ELSE None
PopRest(q) == IF q # <<>> THEN Tail(q) ELSE q

\* peek_next_action
PeekNext(q) == IF q # <<>> THEN q[1] ELSE None

\* op: the operation; action, reason: the token and reason returned; goal:
\* the goal returned; arg: the argument of the call; n: tokens the call
\* removed from the queue; oracle: the call consulted the oracle
\* enq: the tokens the call appended to the queue; title_kw: the summary
\* given to decide has a title keyword; summary: the summary given to decide
\* nav: what the navigation path of decide worked with
NoNav == [proposed |-> None, walkable |-> <<>>, recommended |-> None, goal_id |-> None]
Ret(op, action, goal, arg) ==
    [op |-> op, action |-> action, reason |-> None, goal |-> goal, arg |-> arg,
     n |-> 0, oracle |-> FALSE, nav |-> NoNav, enq |-> <<>>, title_kw |-> FALSE,
     summary |-> {}, locs |-> {}, input |-> [waiting |-> FALSE],
     parsed |-> <<>>]

\* Bounded recorder of a history: once more than MaxHist entries would be
\* held, the recorder gives up and stays at Overflow.
Overflow == << "overflow" >>
Record(h, xs) ==
    IF h = Overflow \/ Len(h) + Len(xs) > MaxHist THEN Overflow ELSE h \o xs

enqueue_actions(actions) ==
    /\ Len(Enqueued(queue, actions)) <= MaxQueue
    /\ queue' = Enqueued(queue, actions)
    /\ hist' = [hist EXCEPT !.enqHist = Record(@, actions), !.getRun = 0]
    /\ ret' = Ret("enqueue_actions", None, 0, None)
    /\ UNCHANGED << status, current, last_action, location, rf, mapVars, default_plan >>

pop_next_action ==
    /\ queue' = PopRest(queue)
    /\ last_action' = IF queue # <<>> THEN PopHead(queue) ELSE last_action
    /\ hist' = [hist EXCEPT
                    !.popped = IF queue # <<>> THEN Record(@, << PopHead(queue) >>) ELSE @,
                    !.getRun = 0]
    /\ ret' = Ret("pop_next_action", PopHead(queue), 0, None)
    /\ UNCHANGED << status, current, location, rf, mapVars, default_plan >>

peek_next_action ==
    /\ ret' = Ret("peek_next_action", PeekNext(queue), 0, None)
    /\ hist' = [hist EXCEPT !.getRun = 0]
    /\ UNCHANGED << progVars, default_plan >>

\* ------------------------------------------------------------------------
\* Observations (the SceneResult handed to the tracker and to decide)
\* ------------------------------------------------------------------------
\* Location strings the game reports; "" stands for a missing location.
Locations == {"", "LITTLEROOT TOWN", "LITTLEROOT TOWN PLAYERS HOUSE 1F",
              "LITTLEROOT TOWN PLAYERS HOUSE 2F",
              "LITTLEROOT TOWN PROFESSOR BIRCHS LAB", "ROUTE 101"}

\* Map names of observation["map"]; "Unknown" is the default of decide
MapNames == {"Unknown", "LITTLEROOT TOWN PLAYERS HOUSE 2F"}

\* Player positions (x, y); NoCoords stands for a missing position
Coords == { <<5, 2>>, <<6, 2>>, <<7, 2>>, <<6, 1>>, <<6, 3>> }
NoCoords == << >>

\* `tok in str(location).lower()` for the tokens update_goal_status tests
LocTokens(l) ==
    CASE l = "LITTLEROOT TOWN" -> {"littleroot town", "littleroot"}
      [] l = "LITTLEROOT TOWN PLAYERS HOUSE 1F" ->
            {"littleroot town", "littleroot", "house", "1f"}
      [] l = "LITTLEROOT TOWN PLAYERS HOUSE 2F" ->
            {"littleroot town", "littleroot", "house", "2f"}
      [] l = "LITTLEROOT TOWN PROFESSOR BIRCHS LAB" ->
            {"littleroot town", "littleroot", "lab", "birch"}
      [] l = "ROUTE 101" -> {"route 101"}
      [] OTHER -> {}
InLoc(tok, l) == tok \in LocTokens(l)

\* A scene text (lower-cased) is represented by the set of phrases written in
\* it; `c in text` holds when c is one of them or a substring of one.
SubPhrases(p) ==
    CASE p = "moving box" -> {"moving box", "box"}
      [] p = "pokemon emerald" -> {"pokemon emerald", "pokemon"}
      [] p = "enter your name" -> {"enter", "name"}
      [] OTHER -> {p}
InText(c, text) == \E p \in text : c \in SubPhrases(p)
AnyInText(phrases, text) == \E c \in phrases : InText(c, text)

\* ------------------------------------------------------------------------
\* Goal tracker (memory.py:203-355)
\* ------------------------------------------------------------------------
\* a scan that skips the goal at lo
FirstPendingFrom_SkipOne(st, lo) ==
    IF \E i \in (lo + 1)..NGoals : st[i] = "pending"
    THEN CHOOSE i \in (lo + 1)..NGoals :
            /\ st[i] = "pending"
            /\ \A j \in (lo + 1)..(i - 1) : st[j] # "pending"
    ELSE 0

\* index of the first goal whose status is pending among lo..NGoals, 0 if none
FirstPendingFrom(st, lo) ==
    IF \E i \in lo..NGoals : st[i] = "pending"
    THEN CHOOSE i \in lo..NGoals :
            /\ st[i] = "pending"
            /\ \A j \in lo..(i - 1) : st[j] # "pending"
    ELSE 0

\* a lookup that rescans the plan behind the current goal on every call
GetActiveGoal_Rescan(st, cur) ==
    IF cur # 0 /\ cur < NGoals THEN cur + 1
    ELSE IF cur # 0 THEN cur ELSE FirstPendingFrom(st, 1)

\* get_active_goal: the current goal when set, else the first pending goal,
\* which becomes current; the value is both the return and the new pointer.
GetActiveGoal(st, cur) == IF cur # 0 THEN cur ELSE FirstPendingFrom(st, 1)

\* index of the first goal of the plan whose id is goal_id, 0 if none
FirstWithId(goal_id) ==
    IF \E i \in 1..NGoals : GoalIds[i] = goal_id
    THEN CHOOSE i \in 1..NGoals :
            /\ GoalIds[i] = goal_id
            /\ \A j \in 1..(i - 1) : GoalIds[j] # goal_id
    ELSE 0

\* a completion that matches the id against the plan only, not against the
\* active goal
CompleteCurrentGoal_AnyId(st, cur, goal_id) ==
    LET c == GetActiveGoal(st, cur)
        i == FirstWithId(goal_id)
    IN  IF i = 0
        THEN [status |-> st, current |-> c]
        ELSE LET st2 == [st EXCEPT ![i] = "completed"]
             IN  [status |-> st2, current |-> FirstPendingFrom(st2, i + 1)]

\* complete_current_goal: [status, current] after the call
CompleteCurrentGoal(st, cur, goal_id) ==
    LET c == GetActiveGoal(st, cur)
    IN  IF c = 0 \/ GoalIds[c] # goal_id
        THEN [status |-> st, current |-> c]
        ELSE LET i == FirstWithId(goal_id)
                 st2 == [st EXCEPT ![i] = "completed"]
             IN  [status |-> st2, current |-> FirstPendingFrom(st2, i + 1)]

\* text of update_goal_status: the summary and the values of key_elements
ObsText(obs) == obs.summary \cup obs.key_elements

\* The per-goal completion predicate of update_goal_status (memory.py:288-355)
GoalPredicate(goal_id, obs, set_clock_queued) ==
    CASE goal_id = "start_game" ->
            obs.scene_type = "MAP" /\ AnyInText({"truck", "moving box"}, ObsText(obs))
      [] goal_id = "leave_the_truck" ->
            AnyInText({"your room is upstairs", "player's house", "mom", "arrived"}, ObsText(obs))
      [] goal_id = "go_upstairs" -> InLoc("2f", obs.loc)
      [] goal_id = "player_bedroom_entered" ->
            /\ InLoc("2f", obs.loc)
            /\ AnyInText({"this is your room", "your bedroom", "nintendo gamecube", "clock"}, ObsText(obs))
      [] goal_id = "set_bedroom_clock" ->
            obs.scene_type \in {"DIALOGUE", "MAP"} /\ set_clock_queued
      [] goal_id = "return_downstairs" -> InLoc("1f", obs.loc) /\ set_clock_queued
      [] goal_id = "exit_player_house" ->
            InLoc("littleroot town", obs.loc) /\ ~InLoc("house", obs.loc)
      [] goal_id = "go_to_birch_lab" -> InLoc("lab", obs.loc) /\ InLoc("birch", obs.loc)
      [] goal_id = "find_route_101" -> InLoc("route 101", obs.loc) \/ InLoc("route101", obs.loc)
      [] goal_id = "find_professor_birch" ->
            /\ InText("professor", ObsText(obs))
            /\ AnyInText({"help", "pokemon", "birch"}, ObsText(obs))
      [] goal_id = "choose_starter" -> obs.party_count >= 1
      [] OTHER -> FALSE

\* update_goal_status: [status, current] after the call
UpdateGoalStatus(st, cur, obs, set_clock_queued) ==
    LET c == GetActiveGoal(st, cur)
    IN  IF c = 0
        THEN [status |-> st, current |-> c]
        ELSE IF GoalPredicate(GoalIds[c], obs, set_clock_queued)
             THEN CompleteCurrentGoal(st, c, GoalIds[c])
             ELSE [status |-> st, current |-> c]

\* history of the tracker after a call that turned status st into st2
Counted(h, st, st2) ==
    [h EXCEPT !.completions = IF st2 # st THEN @ + 1 ELSE @, !.getRun = 0]

\* memory.py:53  DEFAULT_EMERALD_LT_PLAN.copy() copies the list and not the
\* goal dicts in it: while the plan of the module is that copy, a status
\* written to a goal of the plan is written to the dict of the default plan
DefaultAfter(st) ==
    IF default_plan.shared THEN [default_plan EXCEPT !.status = st] ELSE default_plan

get_active_goal ==
    /\ current' = GetActiveGoal(status, current)
    /\ ret' = Ret("get_active_goal", None, GetActiveGoal(status, current), None)
    /\ hist' = [hist EXCEPT
                    !.sawNull = @ \/ GetActiveGoal(status, current) = 0,
                    !.getRun = IF @ < MaxRun THEN @ + 1 ELSE @]
    /\ UNCHANGED << queue, status, last_action, location, rf, mapVars, default_plan >>

complete_current_goal(goal_id) ==
    LET r == CompleteCurrentGoal(status, current, goal_id)
    IN  /\ status' = r.status
        /\ current' = r.current
        /\ ret' = Ret("complete_current_goal", None, 0, goal_id)
        /\ hist' = Counted(hist, status, r.status)
        /\ default_plan' = DefaultAfter(r.status)
        /\ UNCHANGED << queue, last_action, location, rf, mapVars >>

update_goal_status(obs) ==
    LET r == UpdateGoalStatus(status, current, obs, rf.set_clock_sequence_queued)
    IN  /\ status' = r.status
        /\ current' = r.current
        /\ ret' = [Ret("update_goal_status", None, 0, None) EXCEPT
                      !.summary = ObsText(obs), !.locs = {obs.loc}]
        /\ hist' = Counted(hist, status, r.status)
        /\ default_plan' = DefaultAfter(r.status)
        /\ UNCHANGED << queue, last_action, location, rf, mapVars >>

\* ------------------------------------------------------------------------
\* complete_current_goal called by two threads on one MemoryModule
\* (memory.py:218-245): each call runs its three accesses to the state one
\* after the other, and the accesses of the two calls interleave freely
\* ------------------------------------------------------------------------
CallerIds == {1, 2}

\* a caller that has not called yet
Idle == [pc |-> "idle", goal_id |-> None, i |-> 0]
NoCallers == [c \in CallerIds |-> Idle]

\* a loop that marks the goal the pointer is on
MarkIndex_Current(cur, goal_id) == cur

\* memory.py:229  the plan entry the loop marks: the first with the id
MarkIndex(cur, goal_id) == FirstWithId(goal_id)

\* memory.py:222  the comparison of the id with the goal get_active_goal gave
Compared(g, goal_id) == IF g = 0 \/ GoalIds[g] # goal_id THEN "done" ELSE "checked"

\* memory.py:221, 204-211  get_active_goal reads the pointer and, if it is
\* null, scans the plan for the first pending goal
cc_check(c, goal_id) ==
    /\ callers[c].pc = "idle"
    /\ LET g == IF current # 0 THEN current ELSE FirstPendingFrom(status, 1)
       IN  /\ callers' = [callers EXCEPT ![c] =
                             [pc |-> IF current = 0 /\ g # 0 THEN "found"
                                     ELSE Compared(g, goal_id),
                              goal_id |-> goal_id, i |-> g]]
           /\ ret' = Ret("cc_check", None, g, goal_id)
    /\ hist' = IF \A d \in CallerIds : callers[d].pc = "idle"
               THEN [hist EXCEPT !.firstActive = FirstPendingFrom(status, 1)]
               ELSE hist
    /\ UNCHANGED << queue, status, current, last_action, location, rf, naming_handled,
                    explored_map, entry_coords, failed_movements, last_coords, oa,
                    perc, disk, default_plan >>

\* memory.py:212-214, 222  get_active_goal stores the goal it found in the
\* pointer and returns it
cc_auto(c) ==
    /\ callers[c].pc = "found"
    /\ current' = callers[c].i
    /\ callers' = [callers EXCEPT ![c] =
                      [@ EXCEPT !.pc = Compared(callers[c].i, callers[c].goal_id)]]
    /\ ret' = Ret("cc_auto", None, current', callers[c].goal_id)
    /\ UNCHANGED << queue, status, last_action, location, rf, naming_handled,
                    explored_map, entry_coords, failed_movements, last_coords, oa,
                    perc, disk, hist, default_plan >>

\* memory.py:227  the scan of the plan for the id and the mark
cc_mark(c) ==
    /\ callers[c].pc = "checked"
    /\ LET i == MarkIndex(current, callers[c].goal_id)
       IN  /\ status' = IF i = 0 THEN status ELSE [status EXCEPT ![i] = "completed"]
           /\ callers' = [callers EXCEPT ![c] =
                             [@ EXCEPT !.pc = IF i = 0 THEN "done" ELSE "marked", !.i = i]]
    /\ ret' = Ret("cc_mark", None, 0, callers[c].goal_id)
    /\ default_plan' = DefaultAfter(status')
    /\ UNCHANGED << queue, current, last_action, location, rf, naming_handled,
                    explored_map, entry_coords, failed_movements, last_coords, oa,
                    perc, disk, hist >>

\* memory.py:234  the scan for the next pending goal and the new pointer
cc_activate(c) ==
    /\ callers[c].pc = "marked"
    /\ current' = FirstPendingFrom(status, callers[c].i + 1)
    /\ callers' = [callers EXCEPT ![c] = [@ EXCEPT !.pc = "done"]]
    /\ ret' = Ret("cc_activate", None, current', callers[c].goal_id)
    /\ UNCHANGED << queue, status, last_action, location, rf, naming_handled,
                    explored_map, entry_coords, failed_movements, last_coords, oa,
                    perc, disk, hist, default_plan >>

\* ------------------------------------------------------------------------
\* MemoryModule.update (memory.py:357-404)
\* ------------------------------------------------------------------------
\* the queue after update saw location loc with prev_loc stored
QueueAfterUpdate_Keep(q, prev_loc, loc) == q

QueueAfterUpdate(q, prev_loc, loc) ==
    IF loc # "" /\ prev_loc # None /\ prev_loc # loc THEN <<>> ELSE q

\* record_failed_movement on the table of failed movements
RecordFailedMovement(fm, coords, direction) ==
    IF coords = NoCoords THEN fm
    ELSE IF \E i \in 1..Len(fm[coords]) : fm[coords][i] = direction
         THEN fm
         ELSE [fm EXCEPT ![coords] = Append(@, direction)]

\* update(observation, last_action); last_act = None stands for no action.
\* obs.loc is state.player.location, obs.coords is state.player.position.
update(obs, last_act) ==
    LET changed == obs.loc # "" /\ location # None /\ location # obs.loc
    IN  /\ last_action' = IF last_act # None THEN last_act ELSE last_action
        /\ queue' = QueueAfterUpdate(queue, location, obs.loc)
        /\ entry_coords' = IF changed /\ obs.coords # NoCoords
                           THEN [entry_coords EXCEPT ![obs.loc] = obs.coords]
                           ELSE entry_coords
        /\ location' = IF obs.loc # "" THEN obs.loc ELSE location
        /\ failed_movements' =
              IF /\ last_act \in Directions
                 /\ last_coords # NoCoords
                 /\ obs.coords # NoCoords
                 /\ obs.coords = last_coords
              THEN RecordFailedMovement(failed_movements, obs.coords, last_act)
              ELSE failed_movements
        /\ last_coords' = IF last_act \in Directions THEN obs.coords ELSE last_coords
        /\ ret' = [Ret("update", None, 0, obs.loc) EXCEPT !.n = Len(queue) - Len(queue')]
        /\ hist' = [hist EXCEPT !.getRun = 0, !.prevUpdateLoc = obs.loc,
                                !.enqLoc = IF queue' = <<>> THEN <<>> ELSE @]
        /\ UNCHANGED << status, current, rf, naming_handled, explored_map, oa, perc, disk, callers,
                        default_plan >>

\* ------------------------------------------------------------------------
\* Explored map (memory.py:90-167)
\* ------------------------------------------------------------------------
\* A tile grid is given by its non-empty tiles in row-major order (y outer,
\* x inner), the order in which update_explored_map visits them.
Tile(c, sym) == [key |-> c, sym |-> sym]

HasKey(stored, c) == \E i \in 1..Len(stored) : stored[i].key = c

\* stored["tiles"][key] = str(tile) for every tile of the grid, in order: an
\* existing key keeps its place, a new key goes to the end
RECURSIVE MergeTiles(_, _)
MergeTiles(stored, tiles) ==
    IF tiles = <<>> THEN stored
    ELSE LET t == Head(tiles)
             next == IF HasKey(stored, t.key)
                     THEN [i \in 1..Len(stored) |->
                              IF stored[i].key = t.key THEN t ELSE stored[i]]
                     ELSE Append(stored, t)
         IN  MergeTiles(next, Tail(tiles))

\* update_explored_map: obs.state_map is the name of state.map ("" when the
\* observation has no map), obs.tiles its grid
UpdateExploredMap(em, obs) ==
    IF obs.state_map = "" THEN em
    ELSE [em EXCEPT ![obs.state_map] = MergeTiles(@, obs.tiles)]

\* find_tiles_of_type: coordinates of the stored tiles with a symbol of types
FindTilesOfType(em, map_name, types) ==
    LET hits == SelectSeq(em[map_name], LAMBDA t : t.sym \in types)
    IN  [i \in 1..Len(hits) |-> hits[i].key]

\* ------------------------------------------------------------------------
\* Navigation helpers of decide (planning.py:67-330, 573-627)
\* ------------------------------------------------------------------------
Abs(n) == IF n < 0 THEN -n ELSE n
Manhattan(a, b) == Abs(a[1] - b[1]) + Abs(a[2] - b[2])

\* _analyze_movement_preview()['walkable']: the directions of state.walkable
\* in the order of the dict when it names any; else the grid calculation
\* of _calculate_walkable_from_map, which finds no walkable neighbour for
\* symbol tiles; else the WALKABLE lines of the formatted movement preview.
AnalyzeWalkable(obs) ==
    IF obs.walkable # <<>> THEN obs.walkable
    ELSE IF obs.coords # NoCoords /\ obs.state_map # "" /\ obs.tiles # <<>> THEN <<>>
    ELSE obs.preview

\* filter_away_entry: drop targets within one tile of the entry coordinate
FilterAwayEntry(targets, entry) ==
    IF entry = NoCoords THEN targets
    ELSE SelectSeq(targets, LAMBDA t : Manhattan(t, entry) > 1)

\* min(targets, key=manhattan to coords): the first target of least distance
Closest(targets, coords) ==
    LET best == CHOOSE i \in 1..Len(targets) :
                    /\ \A j \in 1..Len(targets) :
                          Manhattan(targets[i], coords) <= Manhattan(targets[j], coords)
                    /\ \A j \in 1..(i - 1) :
                          Manhattan(targets[j], coords) > Manhattan(targets[i], coords)
    IN  targets[best]

\* the direction written into target_info
DirectionToward(target, coords) ==
    LET dx == target[1] - coords[1]
        dy == target[2] - coords[2]
    IN  IF Abs(dx) > Abs(dy)
        THEN (IF dx > 0 THEN "RIGHT" ELSE "LEFT")
        ELSE (IF dy > 0 THEN "DOWN" ELSE "UP")

\* Keyword tests of decide on goal_text.lower(), by goal id ("no_goal" when
\* no goal is active: the text is "Progress the game")
\* any of go/upstairs/downstairs/exit/leave/enter/find/reach
IsNavigationGoal(goal_id) ==
    goal_id \in {"leave_the_truck", "go_upstairs", "player_bedroom_entered",
                 "return_downstairs", "exit_player_house", "go_to_birch_lab",
                 "find_route_101", "find_professor_birch"}
\* 'upstairs' or 'downstairs'
IsStairsGoal(goal_id) == goal_id \in {"go_upstairs", "return_downstairs"}
\* 'exit' or 'leave'
IsExitGoal(goal_id) == goal_id \in {"leave_the_truck", "exit_player_house"}
\* the movement_only flag of the plan
MovementOnly(goal_id) == goal_id \in {"leave_the_truck", "exit_player_house"}

\* recommended_direction: the direction of target_info, None without target
RecommendedDirection(em, ec, obs, goal_id) ==
    LET stairs == FindTilesOfType(em, obs.map_name, {"S"})
        doors == FindTilesOfType(em, obs.map_name, {"D"})
        entry == ec[obs.map_name]
        targets == IF IsStairsGoal(goal_id)
                   THEN FilterAwayEntry(IF stairs # <<>> THEN stairs ELSE doors, entry)
                   ELSE IF IsExitGoal(goal_id) THEN FilterAwayEntry(doors, entry)
                   ELSE <<>>
    IN  IF IsNavigationGoal(goal_id) /\ targets # <<>> /\ obs.coords # NoCoords
        THEN DirectionToward(Closest(targets, obs.coords), obs.coords)
        ELSE None

\* ------------------------------------------------------------------------
\* Oracle replies and their parsing (planning.py:917-990)
\* ------------------------------------------------------------------------
\* A reply is nothing (None or ""), a text, a JSON array of texts, or the
\* call raises.  A text is one of the shapes _normalize_action tells apart:
\*   token      a bare word                         tok
\*   dir_count  DIRECTION count                     tok n
\*   move       MOVE DIRECTION [count], n = -1 when the count is missing
\*   press      PRESS button                        tok
Text(form, tok, n) == [form |-> form, tok |-> tok, n |-> n]
Reply(form, items) == [form |-> form, items |-> items]

Min(a, b) == IF a < b THEN a ELSE b
Repeat(tok, n) == [i \in 1..n |-> tok]
FirstN(q, n) == SubSeq(q, 1, Min(Len(q), n))

\* _normalize_action as a list: a returned string is the one-element list
NormalizeAction(t) ==
    CASE t.form = "dir_count" -> Repeat(t.tok, Min(t.n, 3))
      [] t.form = "token" ->
            IF StripUpper(t.tok) \in Directions \cup {"A", "B", "START", "SELECT"}
            THEN << StripUpper(t.tok) >> ELSE << "A" >>
      [] t.form = "move" ->
            LET steps == Min(IF t.n = -1 THEN 1 ELSE t.n, 3)
            IN  IF steps > 1 THEN Repeat(t.tok, steps) ELSE << t.tok >>
      [] t.form = "press" -> << t.tok >>
      [] OTHER -> << "A" >>

RECURSIVE NormalizeAll(_)
NormalizeAll(items) ==
    IF items = <<>> THEN <<>>
    ELSE NormalizeAction(Head(items)) \o NormalizeAll(Tail(items))

\* _parse_actions
ParseActions(reply, allow_multi) ==
    CASE reply.form = "none" -> << "A" >>
      [] reply.form = "json" ->
            IF allow_multi /\ reply.items # <<>>
            THEN FirstN(NormalizeAll(FirstN(reply.items, 3)), 3)
            ELSE << "A" >>
      [] OTHER -> NormalizeAction(reply.items[1])

\* a call of _parse_actions(response, walkable, allow_multi) on the reply
\* that waits in ret.input
parse_actions ==
    /\ ret.op = "init"
    /\ ret.input.waiting
    /\ ret' = [Ret("_parse_actions", None, 0, None) EXCEPT
                  !.input = ret.input,
                  !.parsed = ParseActions(ret.input.reply, ret.input.allow_multi)]
    /\ UNCHANGED << queue, status, current, last_action, location, rf, naming_handled,
                    explored_map, entry_coords, failed_movements, last_coords, oa,
                    perc, disk, callers, hist, default_plan >>

\* the value decide commits when _parse_actions returned no action at all
EmptyList == "[]"

\* ------------------------------------------------------------------------
\* PlanningModule.decide (planning.py:333-915)
\* ------------------------------------------------------------------------
DialogueLike == {"DIALOGUE", "CUTSCENE"}

\* the escalation ladder of the dialogue handler
DIALOGUE_START_AT == 60
DIALOGUE_B_AT == 40

\* a validation whose walkability check runs before the overrides
Validate_CheckFirst(action, goal_id, recommended, walkable, restrict) ==
    LET InWalkable(a) == \E i \in 1..Len(walkable) : walkable[i] = a
        a0 == IF action \in Directions /\ walkable # <<>> /\ ~InWalkable(action)
              THEN walkable[1] ELSE action
        a1 == IF goal_id = "go_upstairs"
              THEN (IF a0 \in {"DOWN", "A"} THEN "UP" ELSE a0)
              ELSE a0
    IN  [action |-> a1, reason |-> "validated_navigation"]

\* validation and overrides of the navigation path (planning.py:855-903)
Validate(action, goal_id, recommended, walkable, restrict) ==
    LET InWalkable(a) == \E i \in 1..Len(walkable) : walkable[i] = a
        a1 == IF goal_id = "go_upstairs"
              THEN (IF action \in {"DOWN", "A"} THEN "UP" ELSE action)
              ELSE IF /\ IsNavigationGoal(goal_id)
                      /\ recommended # None
                      /\ action # recommended
                      /\ (action = "A" \/ (action \in Directions /\ InWalkable(action)))
                      /\ (walkable = <<>> \/ InWalkable(recommended))
                   THEN recommended
                   ELSE action
    IN  IF a1 \in Directions
        THEN IF walkable # <<>> /\ ~InWalkable(a1)
             THEN [action |-> walkable[1], reason |-> "validated_navigation"]
             ELSE [action |-> a1, reason |-> "validated_navigation"]
        ELSE IF a1 \in {"A", "B", "START", "SELECT"} /\ restrict
             THEN IF walkable # <<>>
                  THEN [action |-> walkable[1], reason |-> "validated_navigation"]
                  ELSE [action |-> "WAIT", reason |-> "movement_required_but_blocked"]
             ELSE [action |-> a1, reason |-> "validated_navigation"]

\* memory.enqueue_actions(tokens) on memory m; m.enq keeps what the call of
\* decide has appended to the queue so far
Enq(m, tokens) ==
    [m EXCEPT !.queue = Enqueued(@, tokens), !.enq = @ \o NormalizePrimitives(tokens)]

\* memory.pop_next_action() on memory m
Pop(m) == [m EXCEPT !.queue = PopRest(@), !.last_action = PopHead(m.queue)]

\* a hardcoded sequence that leaves the goal as it is
Burst_NoComplete(m, fires, tokens, flag, goal_id) ==
    IF fires
    THEN [Enq(m, tokens) EXCEPT !.rf = [m.rf EXCEPT ![flag] = TRUE]]
    ELSE m

\* one hardcoded sequence: enqueue the tokens, raise the flag, complete the goal
Burst(m, fires, tokens, flag, goal_id) ==
    IF fires
    THEN LET c == CompleteCurrentGoal(m.status, m.current, goal_id)
         IN  [Enq(m, tokens) EXCEPT
                       !.rf = [m.rf EXCEPT ![flag] = TRUE],
                       !.status = c.status,
                       !.current = c.current]
    ELSE m

\* an escape in the first walkable direction
EscapeDir_FirstWalkable(walkable) == walkable[1]

\* the post-dialogue escape direction
EscapeDir(walkable) ==
    LET InWalkable(a) == \E i \in 1..Len(walkable) : walkable[i] = a
    IN  IF InWalkable("RIGHT") THEN "RIGHT"
        ELSE IF InWalkable("DOWN") THEN "DOWN"
        ELSE IF InWalkable("LEFT") THEN "LEFT"
        ELSE IF InWalkable("UP") THEN "UP"
        ELSE walkable[1]

Out(m, action, reason, oracle) ==
    [m |-> m, action |-> action, reason |-> reason, oracle |-> oracle, nav |-> NoNav]
Seen(m, scene) == [m EXCEPT !.rf = [m.rf EXCEPT !.last_scene = scene]]

\* a truck exit for the first goal only
TruckExit_StartOnly(goal_id, summary) ==
    /\ goal_id \in {"start_game"}
    /\ (InText("truck", summary) \/ InText("box", summary))

\* the truck-exit test (planning.py:549-550)
TruckExit(goal_id, summary) ==
    /\ goal_id \in {"leave_the_truck", "start_game"}
    /\ (InText("truck", summary) \/ InText("box", summary))

\* the MAP navigation path (planning.py:526-915) from memory m
Navigate(m, obs, reply) ==
    LET active == GetActiveGoal(m.status, m.current)
        goal_id == IF active = 0 THEN "no_goal" ELSE GoalIds[active]
        mA == [m EXCEPT !.current = active]
        walkable == AnalyzeWalkable(obs)
        mB == [mA EXCEPT !.explored_map = UpdateExploredMap(@, obs)]
        recommended == RecommendedDirection(mB.explored_map, entry_coords, obs, goal_id)
        allow_multi == goal_id \notin {"start_game", "leave_the_truck",
                                       "player_bedroom_entered", "set_bedroom_clock"}
        actions == ParseActions(reply, allow_multi)
        mC == IF Len(actions) > 1 THEN Enq(mB, Tail(actions)) ELSE mB
        action == IF Len(actions) >= 1 THEN actions[1] ELSE EmptyList
        v == Validate(action, goal_id, recommended, walkable, MovementOnly(goal_id))
    IN  IF TruckExit(goal_id, obs.summary)
        THEN Out(mA, "RIGHT", "truck_exit", FALSE)
        ELSE IF reply.form = "raise"
        THEN Out(mB, "EXCEPTION", "raised", TRUE)
        ELSE [Out(mC, v.action, v.reason, TRUE) EXCEPT
                 !.nav = [proposed |-> action, walkable |-> walkable,
                          recommended |-> recommended, goal_id |-> goal_id]]

\* a handler that compares the streak before counting the current step
Dialogue_CountAfter(m, obs, prev_scene) ==
    LET streak == m.rf.dialogue_streak + 1
        m0 == IF prev_scene \notin DialogueLike
              THEN Enq(m, << "A", "A", "A", "A" >>)
              ELSE m
        m1 == [m0 EXCEPT !.rf = [m.rf EXCEPT !.dialogue_streak = streak,
                                             !.last_scene = obs.scene_type]]
    IN  IF m.rf.dialogue_streak >= DIALOGUE_START_AT
        THEN Out(m1, "START", "dialogue_escalation_start", FALSE)
        ELSE IF m.rf.dialogue_streak >= DIALOGUE_B_AT
        THEN Out(m1, "B", "dialogue_escalation_b", FALSE)
        ELSE IF PeekNext(m1.queue) = "A" THEN Out(Pop(m1), "A", "dialogue_queue", FALSE)
        ELSE Out(m1, "A", "dialogue", FALSE)

\* the dialogue / cutscene handler (planning.py:442-468) from memory m
Dialogue(m, obs, prev_scene) ==
    LET streak == m.rf.dialogue_streak + 1
        m0 == IF prev_scene \notin DialogueLike
              THEN Enq(m, << "A", "A", "A", "A" >>)
              ELSE m
        m1 == [m0 EXCEPT !.rf = [m.rf EXCEPT !.dialogue_streak = streak,
                                             !.last_scene = obs.scene_type]]
    IN  IF streak >= DIALOGUE_START_AT THEN Out(m1, "START", "dialogue_escalation_start", FALSE)
        ELSE IF streak >= DIALOGUE_B_AT THEN Out(m1, "B", "dialogue_escalation_b", FALSE)
        ELSE IF PeekNext(m1.queue) = "A" THEN Out(Pop(m1), "A", "dialogue_queue", FALSE)
        ELSE Out(m1, "A", "dialogue", FALSE)

\* a naming path that enqueues the confirm burst and marks nothing
MarkNaming_NotMarked(m) == Enq(m, << "A", "A", "A", "A", "START" >>)

\* planning.py:512-515  the naming screen: mark it handled in memory.state
\* and enqueue the confirm burst
MarkNaming(m) ==
    [Enq(m, << "A", "A", "A", "A", "START" >>) EXCEPT !.naming_handled = TRUE]

\* decide after the scene fast paths (planning.py:470-915) from memory m
AfterFastPaths(m, obs, reply, prev_scene) ==
    LET scene == obs.scene_type
        m1 == IF prev_scene \in DialogueLike
              THEN [m EXCEPT !.rf = [m.rf EXCEPT !.dialogue_streak = 0,
                                                 !.post_dialogue_escape_done = FALSE]]
              ELSE m
        walkable_pd == AnalyzeWalkable(obs)
        m2 == IF /\ scene = "MAP"
                 /\ prev_scene \in DialogueLike
                 /\ ~m1.rf.post_dialogue_escape_done
                 /\ walkable_pd # <<>>
              THEN [Enq(m1, << EscapeDir(walkable_pd) >>) EXCEPT
                              !.rf = [m1.rf EXCEPT !.post_dialogue_escape_done = TRUE],
                              !.esc = EscapeDir(walkable_pd)]
              ELSE m1
    IN  IF PeekNext(m2.queue) # None
        THEN Out(Seen(Pop(m2), scene), PopHead(m2.queue), "queued", FALSE)
        ELSE IF /\ scene = "MENU"
                /\ ~m2.naming_handled
                /\ AnyInText({"name", "keyboard", "character", "enter"}, obs.summary)
        THEN Out(Seen(MarkNaming(m2), scene), "START", "naming", FALSE)
        ELSE IF scene = "TRANSITION" THEN Out(Seen(m2, scene), "WAIT", "transition", FALSE)
        ELSE IF scene = "MAP" THEN Navigate(m2, obs, reply)
        ELSE Out(m2, None, None, FALSE)

HasTitleKeyword(summary) ==
    AnyInText({"press start", "main menu", "pokemon emerald", "new game", "continue"}, summary)

\* the memory decide works on once update_goal_status has left [status,
\* current] = g and get_active_goal has run (planning.py:360-378); enq
\* collects what the call appends to the queue, esc is the escape token it
\* enqueued
EarlyGoal(g) ==
    [queue |-> queue, status |-> g.status, current |-> GetActiveGoal(g.status, g.current),
     rf |-> rf, last_action |-> last_action, naming_handled |-> naming_handled,
     explored_map |-> explored_map, enq |-> <<>>, esc |-> None]

\* the three hardcoded sequences (planning.py:382-419), each tested against
\* the goal id read before any of them ran
ClockSequence(m, obs, goal_id_early) ==
    Burst(m, /\ goal_id_early = "player_bedroom_entered"
             /\ obs.scene_type = "MAP"
             /\ ~m.rf.clock_sequence_queued
             /\ obs.coords = <<7, 2>>,
          << "LEFT", "LEFT", "UP", "A", "A" >>,
          "clock_sequence_queued", goal_id_early)

SetClockSequence(m, obs, goal_id_early) ==
    Burst(m, /\ goal_id_early = "set_bedroom_clock"
             /\ obs.scene_type = "MAP"
             /\ ~m.rf.set_clock_sequence_queued
             /\ obs.coords = <<5, 2>>,
          << "A", "UP", "A", "UP", "A", "UP", "A", "UP" >>,
          "set_clock_sequence_queued", goal_id_early)

DownstairsSequence(m, obs, goal_id_early) ==
    Burst(m, /\ goal_id_early = "return_downstairs"
             /\ obs.scene_type = "MAP"
             /\ ~m.rf.downstairs_sequence_queued,
          << "RIGHT", "DOWN", "DOWN", "DOWN", "DOWN" >>,
          "downstairs_sequence_queued", goal_id_early)

Scripted(m, obs) ==
    LET goal_id_early == IF m.current = 0 THEN None ELSE GoalIds[m.current]
    IN  DownstairsSequence(
            SetClockSequence(ClockSequence(m, obs, goal_id_early), obs, goal_id_early),
            obs, goal_id_early)

\* the scene priorities of decide (planning.py:421-915) from memory m
SceneDispatch(m, obs, reply, prev_scene) ==
    IF obs.scene_type = "TITLE" THEN Out(Seen(m, obs.scene_type), "A", "title", FALSE)
    ELSE IF obs.scene_type = "UNKNOWN" /\ HasTitleKeyword(obs.summary)
    THEN Out(Seen(m, obs.scene_type), "A", "title_fallback", FALSE)
    ELSE IF obs.scene_type = "BATTLE" THEN Out(Seen(m, obs.scene_type), "A", "battle", FALSE)
    ELSE IF obs.scene_type \in DialogueLike THEN Dialogue(m, obs, prev_scene)
    ELSE AfterFastPaths(m, obs, reply, prev_scene)

\* the whole of decide: memory after the call and the returned action
\* (rf["step_counter"], which decide only ever increments and nothing reads,
\* is left out of the flags)
Decide(obs, reply) ==
    SceneDispatch(
        Scripted(EarlyGoal(UpdateGoalStatus(status, current, obs,
                                            rf.set_clock_sequence_queued)),
                 obs),
        obs, reply, rf.last_scene)

NewlyCompleted(st, st2) == Cardinality({i \in 1..NGoals : st[i] # st2[i]})

\* the stored locations under which the tokens of the queue were enqueued,
\* once a call that began with the list tags has enqueued enq under loc
EnqLocAfter(tags, enq, loc) == tags \o [i \in 1..Len(enq) |-> loc]

\* the last n entries of a sequence
LastOf(seq, n) == SubSeq(seq, Len(seq) - n + 1, Len(seq))

\* the state after a call of decide that computed d
Commit(d, obs) ==
    /\ queue' = d.m.queue
    /\ status' = d.m.status
    /\ current' = d.m.current
    /\ rf' = d.m.rf
    /\ last_action' = d.m.last_action
    /\ naming_handled' = d.m.naming_handled
    /\ explored_map' = d.m.explored_map
    /\ ret' = [Ret("decide", d.action, 0, obs.scene_type) EXCEPT
                  !.reason = d.reason, !.oracle = d.oracle, !.nav = d.nav,
                  !.enq = d.m.enq, !.title_kw = HasTitleKeyword(obs.summary),
                  !.summary = obs.summary,
                  !.n = IF d.reason \in {"queued", "dialogue_queue"} THEN 1 ELSE 0]
    /\ hist' = [hist EXCEPT
                  !.getRun = 0,
                  !.prevQueued = IF ret.op = "decide" /\ ret.reason = "queued"
                                 THEN ret.action ELSE None,
                  !.completions = @ + NewlyCompleted(status, d.m.status),
                  !.dlgBase = IF obs.scene_type \in DialogueLike /\ hist.dlgRun = 0
                              THEN rf.dialogue_streak ELSE @,
                  !.dlgRun = IF obs.scene_type \in DialogueLike THEN @ + 1 ELSE 0,
                  !.stepWalkable = IF hist.track THEN AnalyzeWalkable(obs) ELSE @,
                  !.stepLoc = IF hist.track THEN obs.loc ELSE @,
                  !.stepCoords = IF hist.track THEN obs.coords ELSE @,
                  !.enqLoc = IF hist.track
                             THEN LastOf(EnqLocAfter(hist.enqLoc, d.m.enq, location),
                                         Len(d.m.queue))
                             ELSE @,
                  !.poppedLoc = IF hist.track /\ d.reason = "queued"
                                THEN Head(EnqLocAfter(hist.enqLoc, d.m.enq, location))
                                ELSE None,
                  !.esc = IF hist.track THEN d.m.esc ELSE @,
                  !.escCount = IF ~hist.track THEN @
                               ELSE IF obs.scene_type \in DialogueLike THEN 0
                               ELSE IF d.m.esc # None THEN @ + 1 ELSE @]
    /\ default_plan' = DefaultAfter(d.m.status)
    /\ UNCHANGED << location, entry_coords, failed_movements, last_coords, oa, perc, disk,
                    callers >>

decide(obs, reply) == Commit(Decide(obs, reply), obs)

\* ------------------------------------------------------------------------
\* The openai variant (agent/openai/planning.py, agent/openai/memory.py).
\* Its queue is the _GLOBAL_PENDING of its own memory module, held in
\* `queue` when this variant runs.  Its plan is what set_long_term_plan or
\* planning_step installed: empty after construction, or the first goals
\* of DEFAULT_EMERALD_LT_PLAN.
\* ------------------------------------------------------------------------
\* the ids of DEFAULT_EMERALD_LT_PLAN, in order (planning.py:20-104)
OaGoalIds ==
    << "start_game", "leave_the_truck", "go_upstairs", "player_bedroom_entered",
       "set_bedroom_clock", "return_downstairs", "exit_player_house",
       "littleroot_town_explore", "route_101", "choose_starter", "first_rival_battle",
       "oldale_town_visit", "petalburg_city_reach", "petalb_woods_navigate",
       "rustboro_city_reach", "rustboro_gym_challenge", "route_116_explore",
       "rusturf_tunnel_clear" >>

\* the completion_cues of the goals of DEFAULT_EMERALD_LT_PLAN
OaCues(goal_id) ==
    CASE goal_id = "start_game" ->
            {"your very own adventure", "well, i'll be expecting you later", "come see me"}
      [] goal_id = "leave_the_truck" ->
            {"your room is upstairs", "player's house", "you've arrived at your new home",
             "mom", "downstairs"}
      [] goal_id = "go_upstairs" -> {"2f", "second floor"}
      [] goal_id = "player_bedroom_entered" ->
            {"it's a nintendo gamecube", "this is your room", "this is your bedroom"}
      [] goal_id = "set_bedroom_clock" ->
            {"better set it", "set the time", "set the clock", "it's a pokemon brand clock",
             "clock is stopped"}
      [] goal_id = "return_downstairs" -> {"downstairs", "1f"}
      [] goal_id = "exit_player_house" -> {"littleroot", "outside", "route 101"}
      [] goal_id = "littleroot_town_explore" -> {"birch's lab", "go visit prof. birch"}
      [] goal_id = "route_101" -> {"route 101", "oldale town", "birch's bag", "map_id=3"}
      [] goal_id = "choose_starter" ->
            {"chose torchic", "chose treecko", "chose mudkip", "received pokemon",
             "party_count=1"}
      [] goal_id = "first_rival_battle" ->
            {"defeated may", "route 103", "winner", "battle_result=win"}
      [] goal_id = "oldale_town_visit" -> {"oldale town", "pokecenter", "healed", "map_id=2"}
      [] goal_id = "petalburg_city_reach" -> {"petalburg city", "norman's gym", "map_id=4"}
      [] goal_id = "petalb_woods_navigate" -> {"petalburg woods", "devon corp", "map_id=5"}
      [] goal_id = "rustboro_city_reach" -> {"rustboro city", "devon goods", "map_id=6"}
      [] goal_id = "rustboro_gym_challenge" ->
            {"roxanne", "stone badge", "gym_id=1", "battle_result=win"}
      [] goal_id = "route_116_explore" -> {"route 116", "rusturf tunnel", "map_id=7"}
      [] goal_id = "rusturf_tunnel_clear" ->
            {"rusturf tunnel", "team aqua", "devon goods recovered", "map_id=8"}
      [] OTHER -> {}

\* PlanningModule.__init__ and MemoryModule.__init__
InitOpenai ==
    [status |-> <<>>, naming_handled |-> FALSE, context_cache |-> {}, shadow |-> <<>>,
     location |-> None]

\* get_active_goal: the first goal whose status is not completed, 0 if none
OaGetActiveGoal(st) ==
    IF \E i \in 1..Len(st) : st[i] # "completed"
    THEN CHOOSE i \in 1..Len(st) :
            /\ st[i] # "completed"
            /\ \A j \in 1..(i - 1) : st[j] = "completed"
    ELSE 0

OaGoalId(st) == IF OaGetActiveGoal(st) = 0 THEN "no_goal" ELSE OaGoalIds[OaGetActiveGoal(st)]

\* memory.py:477  (self.state.get("location") or "").lower()
OaLoc(l) == IF l = None THEN "" ELSE l

\* a go_upstairs rule that goes on to the completion cues of the goal
OaUpstairs_Fallback(loc, obs_loc, text) ==
    \/ \E cue \in {"2f", "player_house_2f", "player house 2f", "player's house 2f"} :
          InLoc(cue, loc) \/ InLoc(cue, obs_loc)
    \/ AnyInText({"2f", "second floor"}, text)

\* memory.py:573-597  go_upstairs: a 2F cue in the stored location or in
\* key_elements["Location"]; the rule returns before the fallback cues
OaUpstairs(loc, obs_loc, text) ==
    \E cue \in {"2f", "player_house_2f", "player house 2f", "player's house 2f"} :
        InLoc(cue, loc) \/ InLoc(cue, obs_loc)

\* memory.py:634  `("littleroot_town", "outside_littleroot", "littleroot") in loc`
\* has a tuple on the left of `in` and a string on the right, which raises
\* TypeError before anything is compared; the rule is reached whenever
\* littleroot_town_explore is the active goal
OaRaises(goal_id) == goal_id = "littleroot_town_explore"

\* the rules of update_goal_status that belong to one goal and, for the
\* goals whose rule does not return, the completion cues of the fallback
\* (memory.py:503-660); the party is empty and no map id is stored
OaGoalPredicate(goal_id, obs) ==
    CASE goal_id = "start_game" ->
            /\ obs.scene_type = "MAP"
            /\ \/ AnyInText({"your very own adventure", "well, i'll be expecting you later",
                             "come see me"}, ObsText(obs))
               \/ AnyInText({"box", "truck", "storage"}, ObsText(obs))
      [] goal_id = "leave_the_truck" ->
            AnyInText({"your room is upstairs", "player's house", "mom", "welcome home",
                       "arrived at your new home", "downstairs",
                       "you've arrived at your new home"}, ObsText(obs))
      [] goal_id = "go_upstairs" ->
            OaUpstairs(OaLoc(oa.location), obs.ke_location, ObsText(obs))
      [] goal_id = "player_bedroom_entered" ->
            AnyInText({"this is your room", "this is your bedroom", "nintendo gamecube"}
                      \cup OaCues(goal_id), ObsText(obs))
      [] goal_id = "set_bedroom_clock" ->
            AnyInText({"set the time", "set the clock", "better set it", "clock is set"}
                      \cup OaCues(goal_id), ObsText(obs))
      [] goal_id = "return_downstairs" ->
            \/ InLoc("1f", OaLoc(oa.location))
            \/ InLoc("house", OaLoc(oa.location)) /\ ~InLoc("2f", OaLoc(oa.location))
            \/ AnyInText(OaCues(goal_id), ObsText(obs))
      [] goal_id = "exit_player_house" ->
            \/ InLoc("littleroot", OaLoc(oa.location))
            \/ AnyInText(OaCues(goal_id), ObsText(obs))
      [] goal_id = "route_101" ->
            \/ InLoc("route 101", OaLoc(oa.location))
            \/ InLoc("route 101", obs.ke_location)
            \/ AnyInText(OaCues(goal_id), ObsText(obs))
      [] OTHER -> AnyInText(OaCues(goal_id), ObsText(obs))

OaUpdateGoalStatus(st, obs) ==
    IF /\ OaGetActiveGoal(st) # 0
       /\ ~OaRaises(OaGoalId(st))
       /\ OaGoalPredicate(OaGoalId(st), obs)
    THEN [st EXCEPT ![OaGetActiveGoal(st)] = "completed"]
    ELSE st

\* _hash_context: the digest stands for the key it is computed from; the
\* sorted keys of memory.state are the same in every call
HashContext(obs, st) == << obs.scene_type, obs.summary, OaGoalId(st) >>

\* the buttons decide accepts from the oracle (planning.py:539)
OA_ALLOWED == {"UP", "DOWN", "LEFT", "RIGHT", "A", "B", "START"}
\* random.choice over the four directions (planning.py:544, 548) and over
\* the truck exploration list (planning.py:467), by the index drawn
RandomDirs == << "UP", "DOWN", "LEFT", "RIGHT" >>
TruckChoices == << "RIGHT", "RIGHT", "DOWN", "LEFT" >>

\* the first word of a text that is an allowed button, None if there is none
OaFirstAllowed(t) ==
    CASE t.form = "token" -> IF StripUpper(t.tok) \in OA_ALLOWED THEN StripUpper(t.tok) ELSE None
      [] t.form = "press" -> IF t.tok \in OA_ALLOWED THEN t.tok ELSE None
      [] OTHER -> t.tok

\* the text matches MOVE <direction> <digits>
OaIsMove(t) == t.form = "move" /\ t.n >= 0
OaClamp(n) == IF n < 1 THEN 1 ELSE Min(n, 3)

\* what one part after the first comma adds to the queue
OaItemTokens(t) ==
    IF OaIsMove(t) THEN Repeat(t.tok, OaClamp(t.n))
    ELSE IF OaFirstAllowed(t) # None THEN << OaFirstAllowed(t) >>
    ELSE <<>>

RECURSIVE OaTail(_)
OaTail(items) ==
    IF items = <<>> THEN <<>> ELSE OaItemTokens(Head(items)) \o OaTail(Tail(items))

\* the reply as decide reads it: the first part and the tokens of the others
OaParse(reply) ==
    CASE reply.form = "none" -> [head |-> Text("token", "NONE", 0), tail |-> <<>>]
      [] reply.form = "raise" -> [head |-> Text("token", "A", 0), tail |-> <<>>]
      [] reply.form = "json" /\ reply.items = <<>> ->
            [head |-> Text("token", "[]", 0), tail |-> <<>>]
      [] OTHER -> [head |-> reply.items[1], tail |-> OaTail(Tail(reply.items))]

OaOut(m, action, reason, oracle) ==
    [m |-> m, action |-> action, reason |-> reason, oracle |-> oracle]

\* the action decide returns for the first part p of the reply
OaFirstAction(p, scene, pick) ==
    IF OaIsMove(p) THEN p.tok
    ELSE IF OaFirstAllowed(p) # None
         THEN (IF scene = "MAP" /\ OaFirstAllowed(p) = "A"
               THEN RandomDirs[pick] ELSE OaFirstAllowed(p))
         ELSE (IF scene = "MAP" THEN RandomDirs[pick] ELSE "A")

\* the oracle call and the reading of its reply (planning.py:483-548)
OaOracle(m, obs, p, pick) ==
    OaOut(Enq(Enq(m, p.tail),
              IF OaIsMove(p.head) THEN Repeat(p.head.tok, OaClamp(p.head.n) - 1) ELSE <<>>),
          OaFirstAction(p.head, obs.scene_type, pick), None, TRUE)

\* goal recovery, truck heuristic and oracle (planning.py:440-548)
OaNavigate(m, obs, reply, pick) ==
    IF \/ InText("truck", obs.summary)
       \/ (InText("box", obs.summary) /\ InText("storage", obs.summary))
    THEN IF OaGoalId(m.status) \in {"leave_the_truck", "start_game"}
         THEN OaOut(m, "RIGHT", "truck_exit", FALSE)
         ELSE OaOut(m, TruckChoices[pick], "truck_explore", FALSE)
    ELSE OaOracle(m, obs, OaParse(reply), pick)

OaDialogLike(obs) ==
    \/ obs.scene_type \in {"DIALOGUE", "CUTSCENE"}
    \/ AnyInText({"dialogue box", "dialog box", "speech bubble", "text box", "message box",
                  "conversation", "talking", "is speaking", "is saying"}, obs.summary)
    \/ AnyInText({"dialogue_box", "speech_bubble", "text_box"}, obs.key_elements)

OaIsNaming(obs) ==
    \/ AnyInText({"name", "enter", "keyboard", "character", "nickname", "input"}, obs.summary)
    \/ AnyInText({"name", "keyboard", "input", "naming", "nickname", "character"},
                 obs.key_elements)

\* decide from the queue check on (planning.py:339-548)
OaFastPaths(m, obs, reply, pick) ==
    IF m.queue # <<>> THEN OaOut(Pop(m), PopHead(m.queue), "queued", FALSE)
    ELSE IF m.shadow # <<>>
    THEN OaOut([m EXCEPT !.shadow = Tail(@)], Head(m.shadow), "shadow_queue", FALSE)
    ELSE IF obs.scene_type = "TITLE"
    THEN OaOut(Enq(m, << "A", "A", "A", "A", "A", "A", "A", "A", "A" >>),
               "A", "title_screen", FALSE)
    ELSE IF obs.scene_type = "BATTLE" THEN OaOut(m, "A", "autoA_battle", FALSE)
    ELSE IF obs.scene_type = "MENU" /\ ~m.naming_handled /\ OaIsNaming(obs)
    THEN OaOut([Enq(m, << "A", "A", "A", "START" >>) EXCEPT !.naming_handled = TRUE],
               "START", "naming_completion", FALSE)
    ELSE IF OaDialogLike(obs) THEN OaOut(m, "A", "autoA_dialogue_or_cutscene", FALSE)
    ELSE OaNavigate(m, obs, reply, pick)

\* the memory decide works on
OaMemory ==
    [queue |-> queue, last_action |-> last_action, status |-> oa.status,
     naming_handled |-> oa.naming_handled, shadow |-> oa.shadow, enq |-> <<>>]

\* the whole of decide: the cache lookup answers when the key is stored
OaDecide(obs, reply, pick) ==
    IF \E e \in oa.context_cache : e.key = HashContext(obs, oa.status)
    THEN LET e == CHOOSE c \in oa.context_cache : c.key = HashContext(obs, oa.status)
         IN  OaOut(OaMemory, e.action, e.reason, FALSE)
    ELSE OaFastPaths([OaMemory EXCEPT !.status = OaUpdateGoalStatus(@, obs)],
                     obs, reply, pick)

\* the state after a call of decide that computed d; ret.goal is the goal
\* that went into the context key
OaCommit(d, obs) ==
    /\ queue' = d.m.queue
    /\ last_action' = d.m.last_action
    /\ oa' = [oa EXCEPT !.status = d.m.status, !.naming_handled = d.m.naming_handled,
                        !.shadow = d.m.shadow]
    /\ ret' = [Ret("oa_decide", d.action, OaGetActiveGoal(oa.status), obs.scene_type) EXCEPT
                  !.reason = d.reason, !.oracle = d.oracle, !.enq = d.m.enq,
                  !.summary = obs.summary,
                  !.n = Len(queue) + Len(d.m.enq) - Len(d.m.queue)]
    /\ hist' = [hist EXCEPT !.getRun = 0]
    /\ UNCHANGED << status, current, location, rf, naming_handled, explored_map,
                    entry_coords, failed_movements, last_coords, perc, disk,
                    callers, default_plan >>

oa_decide(obs, reply, pick) == OaCommit(OaDecide(obs, reply, pick), obs)

\* memory.py:296-341  update: the stored location follows
\* key_elements["Location"] when the key is there
oa_update(obs) ==
    /\ oa' = [oa EXCEPT !.location = IF obs.ke_location # "" THEN obs.ke_location ELSE @]
    /\ ret' = Ret("oa_update", None, 0, obs.scene_type)
    /\ UNCHANGED << queue, status, current, last_action, location, rf, naming_handled,
                    explored_map, entry_coords, failed_movements, last_coords, perc,
                    disk, callers, hist, default_plan >>

\* memory.py:460-664  update_goal_status of the openai variant
oa_update_goal_status(obs) ==
    /\ oa' = [oa EXCEPT !.status = OaUpdateGoalStatus(oa.status, obs)]
    /\ ret' = [Ret("oa_update_goal_status", None, OaGetActiveGoal(oa.status),
                   obs.scene_type) EXCEPT
                  !.summary = ObsText(obs),
                  !.locs = {OaLoc(oa.location), obs.ke_location},
                  !.reason = IF OaRaises(OaGoalId(oa.status)) THEN "raised" ELSE None]
    /\ UNCHANGED << queue, status, current, last_action, location, rf, naming_handled,
                    explored_map, entry_coords, failed_movements, last_coords, perc,
                    disk, callers, hist, default_plan >>

\* ------------------------------------------------------------------------
\* Persistence: MemoryModule.save, and __init__ with load in a new process
\* ------------------------------------------------------------------------
\* memory.py:416  json.dump(self.state): the keys of the state dict and
\* nothing else of the module; strings, booleans, None, lists and dicts with
\* string keys are read back by json.load as they were written
StateDocument ==
    [exists |-> TRUE,
     location |-> location,
     status |-> status,
     current |-> current,
     last_action |-> last_action,
     naming_handled |-> naming_handled,
     explored_map |-> explored_map]

\* memory.py:413  save; ok is false when the file cannot be opened, which
\* is logged and leaves the file as it was
save(ok) ==
    /\ disk' = IF ok THEN StateDocument ELSE disk
    /\ ret' = [Ret("save", None, 0, None) EXCEPT !.reason = IF ok THEN None ELSE "failed"]
    /\ UNCHANGED << queue, status, current, last_action, location, rf, naming_handled,
                    explored_map, entry_coords, failed_movements, last_coords, oa,
                    perc, callers, hist, default_plan >>

\* memory.py:40  the runtime flags of a new module; the flags that decide
\* adds are absent and read as their defaults
NewRuntimeFlags ==
    [clock_sequence_queued |-> FALSE,
     set_clock_sequence_queued |-> FALSE,
     downstairs_sequence_queued |-> FALSE,
     dialogue_streak |-> 0,
     last_scene |-> None,
     post_dialogue_escape_done |-> FALSE]

\* memory.py:27  __init__ in a new process: the defaults, then load
\* (state.update with the document when the file exists), then the default
\* plan when the plan is empty. The pending queue of the new process is empty.
restart ==
    /\ queue' = <<>>
    /\ location' = IF disk.exists THEN disk.location ELSE None
    /\ status' = IF disk.exists THEN disk.status ELSE [i \in 1..NGoals |-> "pending"]
    /\ current' = IF disk.exists THEN disk.current ELSE 0
    /\ last_action' = IF disk.exists THEN disk.last_action ELSE None
    /\ naming_handled' = IF disk.exists THEN disk.naming_handled ELSE FALSE
    /\ explored_map' = IF disk.exists THEN disk.explored_map ELSE [m \in MapNames |-> <<>>]
    /\ entry_coords' = [m \in MapNames \cup Locations |-> NoCoords]
    /\ failed_movements' = [c \in Coords |-> <<>>]
    /\ last_coords' = NoCoords
    /\ rf' = NewRuntimeFlags
    /\ ret' = Ret("load", None, 0, None)
    /\ hist' = [hist EXCEPT !.completions = 0, !.sawNull = FALSE, !.getRun = 0,
                             !.prevUpdateLoc = None, !.prevQueued = None,
                             !.dlgBase = 0, !.dlgRun = 0]
    /\ default_plan' = [status |-> [i \in 1..NGoals |-> "pending"],
                        shared |-> ~disk.exists]
    /\ UNCHANGED << oa, perc, disk, callers >>

\* memory.py:27  __init__ in the process in which modules were built before
\* (planning.py:996-1007 and memory.py:441-450 build one per call when they
\* are not handed a module): as in a new process, but the pending queue and
\* the goal dicts of the default plan are those of the process
construct ==
    /\ location' = IF disk.exists THEN disk.location ELSE None
    /\ status' = IF disk.exists THEN disk.status ELSE default_plan.status
    /\ current' = IF disk.exists THEN disk.current ELSE 0
    /\ last_action' = IF disk.exists THEN disk.last_action ELSE None
    /\ naming_handled' = IF disk.exists THEN disk.naming_handled ELSE FALSE
    /\ explored_map' = IF disk.exists THEN disk.explored_map ELSE [m \in MapNames |-> <<>>]
    /\ entry_coords' = [m \in MapNames \cup Locations |-> NoCoords]
    /\ failed_movements' = [c \in Coords |-> <<>>]
    /\ last_coords' = NoCoords
    /\ rf' = NewRuntimeFlags
    /\ default_plan' = [default_plan EXCEPT !.shared = ~disk.exists]
    /\ ret' = Ret("construct", None, 0, None)
    /\ hist' = [hist EXCEPT !.completions = 0, !.sawNull = FALSE, !.getRun = 0,
                             !.prevUpdateLoc = None, !.prevQueued = None,
                             !.dlgBase = 0, !.dlgRun = 0]
    /\ UNCHANGED << queue, oa, perc, disk, callers >>

\* ------------------------------------------------------------------------
\* Scene classification: PerceptionModule of the deprecated variant
\* ------------------------------------------------------------------------
\* A dict that carries any of the keys x and y; a key that is missing reads
\* as None
XY == { [k \in D |-> 0] : D \in SUBSET {"x", "y"} }
HasX(p) == "x" \in DOMAIN p
HasY(p) == "y" \in DOMAIN p
PosOf(p) == IF HasX(p) /\ HasY(p) THEN << p.x, p.y >> ELSE NoCoords

\* A scene summary: its wording and the position printed in it, if any
Summary(text, pos) == [text |-> text, pos |-> pos]

\* What analyze reads of an observation: the five scene flags (each true when
\* one of its sources is truthy), the map name and the player coordinates that
\* _infer_scene_from_state looks at (absent: ""), state["map"]["tiles"] and
\* state["player"]["position"] that the override looks at (absent: empty), and
\* whether the observation carries a frame
PercObs ==
    [title : BOOLEAN, battle : BOOLEAN, dialogue : BOOLEAN, menu : BOOLEAN,
     cutscene : BOOLEAN, map_name : {"", "ROUTE 101"}, player : XY,
     tiles : { <<>>, << "FLOOR" >> }, position : XY, frame : BOOLEAN]

InferSceneFromState_MenuFirst(obs) ==
    IF obs.title THEN [scene_type |-> "TITLE", summary |-> Summary("Main menu visible.", NoCoords)]
    ELSE IF obs.battle THEN [scene_type |-> "BATTLE", summary |-> Summary("Battle in progress", NoCoords)]
    ELSE IF obs.menu THEN [scene_type |-> "MENU", summary |-> Summary("Menu open.", NoCoords)]
    ELSE IF obs.dialogue THEN [scene_type |-> "DIALOGUE", summary |-> Summary("Dialogue textbox visible.", NoCoords)]
    ELSE IF obs.cutscene THEN [scene_type |-> "CUTSCENE", summary |-> Summary("Scripted scene.", NoCoords)]
    ELSE IF obs.map_name # "" \/ (HasX(obs.player) /\ HasY(obs.player))
         THEN [scene_type |-> "MAP",
               summary |-> Summary(IF obs.map_name # "" THEN obs.map_name ELSE "Overworld",
                                   PosOf(obs.player))]
    ELSE [scene_type |-> "UNKNOWN", summary |-> Summary("", NoCoords)]

\* perception.py:112  _infer_scene_from_state: the flags in the order of the
\* returns, then the map name or both coordinates, then UNKNOWN
InferSceneFromState(obs) ==
    IF obs.title THEN [scene_type |-> "TITLE", summary |-> Summary("Main menu visible.", NoCoords)]
    ELSE IF obs.battle THEN [scene_type |-> "BATTLE", summary |-> Summary("Battle in progress", NoCoords)]
    ELSE IF obs.dialogue THEN [scene_type |-> "DIALOGUE", summary |-> Summary("Dialogue textbox visible.", NoCoords)]
    ELSE IF obs.menu THEN [scene_type |-> "MENU", summary |-> Summary("Menu open.", NoCoords)]
    ELSE IF obs.cutscene THEN [scene_type |-> "CUTSCENE", summary |-> Summary("Scripted scene.", NoCoords)]
    ELSE IF /\ ~obs.dialogue /\ ~obs.menu /\ ~obs.cutscene
            /\ obs.map_name # "" \/ (HasX(obs.player) /\ HasY(obs.player))
         THEN [scene_type |-> "MAP",
               summary |-> Summary(IF obs.map_name # "" THEN obs.map_name ELSE "Overworld",
                                   PosOf(obs.player))]
    ELSE [scene_type |-> "UNKNOWN", summary |-> Summary("", NoCoords)]

\* perception.py:318  the override of a DIALOGUE label by map tiles and a
\* player position
DialogueOverride(obs, inferred) ==
    LET has_map == obs.tiles # <<>>
        has_position == HasX(obs.position) /\ HasY(obs.position)
    IN  IF inferred.scene_type = "DIALOGUE" /\ has_map /\ has_position
        THEN [scene_type |-> "MAP",
              summary |-> Summary("Player in map at", PosOf(obs.position))]
        ELSE inferred

\* perception.py:398  the labels the oracle may give
ValidScenes == {"MAP", "BATTLE", "MENU", "DIALOGUE", "CUTSCENE", "TITLE"}

\* str.lower of the part of a reply line before the colon
LowerHead(h) ==
    CASE h \in {"SceneType", "SCENETYPE", "scenetype"} -> "scenetype"
      [] h \in {"Summary", "summary"} -> "summary"
      [] h \in {"KeyElements"} -> "keyelements"
      [] h \in {"Scene"} -> "scene"
      [] OTHER -> h

\* str.upper of the stripped value of a SceneType line
UpperValue(v) ==
    CASE v = "map" -> "MAP"
      [] v = "Dialogue" -> "DIALOGUE"
      [] v = "overworld" -> "OVERWORLD"
      [] v = "unknown" -> "UNKNOWN"
      [] OTHER -> v

\* A reply line "head: value"
Line(head, value) == [head |-> head, value |-> value]

\* perception.py:386  the parse of the reply, line after line: a later
\* SceneType or Summary line replaces an earlier one
RECURSIVE ParseSceneReply(_, _)
ParseSceneReply(lines, acc) ==
    IF lines = <<>> THEN acc
    ELSE LET ln == Head(lines)
             next == IF LowerHead(ln.head) = "scenetype"
                     THEN [acc EXCEPT !.scene_type = UpperValue(ln.value)]
                     ELSE IF LowerHead(ln.head) = "summary"
                     THEN [acc EXCEPT !.summary = Summary(ln.value, NoCoords)]
                     ELSE acc
         IN  ParseSceneReply(Tail(lines), next)

OracleScene_NoCoercion(parsed) ==
    parsed

\* perception.py:399  a label outside the valid ones becomes CUTSCENE, with
\* the default summary when the reply gave none
OracleScene(parsed) ==
    IF parsed.scene_type \notin ValidScenes
    THEN [scene_type |-> "CUTSCENE",
          summary |-> IF parsed.summary.text = ""
                      THEN Summary("Scripted scene.", NoCoords) ELSE parsed.summary]
    ELSE parsed

\* What the oracle does when asked: it raises, or it answers with lines (no
\* line at all when get_query returns None or an empty text)
SceneReply(raises, lines) == [raises |-> raises, lines |-> lines]

\* perception.py:373  the escalation to the oracle after an UNKNOWN
Escalate(obs, reply) ==
    IF ~obs.frame
    THEN [scene_type |-> "CUTSCENE", summary |-> Summary("Scripted scene.", NoCoords),
          oracle |-> FALSE]
    ELSE IF reply.raises
    THEN [scene_type |-> "CUTSCENE", summary |-> Summary("Scripted scene.", NoCoords),
          oracle |-> TRUE]
    ELSE LET parsed == ParseSceneReply(reply.lines,
                          [scene_type |-> "UNKNOWN", summary |-> Summary("", NoCoords)])
             out == OracleScene(parsed)
         IN  [scene_type |-> out.scene_type, summary |-> out.summary, oracle |-> TRUE]

\* perception.py:307  analyze: the label from the flags, the override, and
\* the oracle when nothing classified the observation
Analyze(obs, reply) ==
    LET inferred == DialogueOverride(obs, InferSceneFromState(obs))
    IN  IF inferred.scene_type # "UNKNOWN"
        THEN [scene_type |-> inferred.scene_type, summary |-> inferred.summary,
              oracle |-> FALSE]
        ELSE Escalate(obs, reply)

\* no call of analyze has been made
NoPerception == [called |-> FALSE]

\* the inputs of a call of analyze that is still to be made
Pending(obs, reply) ==
    [called |-> FALSE, obs |-> obs, reply |-> reply, flags |-> None,
     scene_type |-> None, summary |-> Summary("", NoCoords), oracle |-> FALSE]

\* perception.py:661  perception_step: one call of analyze on the inputs
\* held in perc; flags keeps the label _infer_scene_from_state gave
analyze ==
    /\ ~perc.called
    /\ LET result == Analyze(perc.obs, perc.reply)
       IN  /\ perc' = [perc EXCEPT !.called = TRUE,
                          !.flags = InferSceneFromState(perc.obs).scene_type,
                          !.scene_type = result.scene_type,
                          !.summary = result.summary,
                          !.oracle = result.oracle]
           /\ ret' = Ret("analyze", None, 0, result.scene_type)
    /\ UNCHANGED << queue, status, current, last_action, location, rf, naming_handled,
                    explored_map, entry_coords, failed_movements, last_coords, oa,
                    disk, callers, hist, default_plan >>

\* ------------------------------------------------------------------------
\* Specification of the queue alone: enqueues and pops in any order
\* ------------------------------------------------------------------------
InitDeprecated ==
    /\ queue = <<>>
    /\ status = [i \in 1..NGoals |-> "pending"]
    /\ current = 0
    /\ last_action = None
    /\ location = None
    /\ naming_handled = FALSE
    /\ explored_map = [m \in MapNames |-> <<>>]
    /\ entry_coords = [m \in MapNames \cup Locations |-> NoCoords]
    /\ failed_movements = [c \in Coords |-> <<>>]
    /\ last_coords = NoCoords
    /\ disk = NoFile
    /\ callers = NoCallers
    /\ default_plan = [status |-> [i \in 1..NGoals |-> "pending"], shared |-> TRUE]
    /\ rf = [clock_sequence_queued |-> FALSE,
             set_clock_sequence_queued |-> FALSE,
             downstairs_sequence_queued |-> FALSE,
             dialogue_streak |-> 0,
             last_scene |-> None,
             post_dialogue_escape_done |-> FALSE]

InitMemory == InitDeprecated /\ oa = InitOpenai /\ perc = NoPerception

InitHist ==
    [enqHist |-> <<>>,       \* raw tokens handed to enqueue_actions
     popped |-> <<>>,        \* tokens returned by pop_next_action
     completions |-> 0,      \* calls that marked a goal completed
     sawNull |-> FALSE,      \* get_active_goal has returned null
     getRun |-> 0,           \* get_active_goal calls in a row
     prevUpdateLoc |-> None, \* location given to the latest update
     track |-> FALSE,        \* whether the step fields below are kept
     stepWalkable |-> <<>>,  \* the walkable list of the observation of the last decide
     stepLoc |-> "",         \* the location reported by the observation of the last decide
     stepCoords |-> NoCoords, \* the position reported by the observation of the last decide
     enqLoc |-> <<>>,        \* for each queued token, the stored location when it was enqueued
     poppedLoc |-> None,     \* that location for the token the last decide returned from the queue
     esc |-> None,           \* the escape token the last decide enqueued
     escCount |-> 0,         \* escape tokens enqueued since the last dialogue-like step
     firstActive |-> 0,      \* the goal that was first pending when the callers began
     prevQueued |-> None,    \* token the operation before the latest decide popped as decide
     dlgBase |-> 0,          \* dialogue streak when the current run of dialogue steps began
     dlgRun |-> 0,           \* dialogue-like decide steps in a row, up to now
     world |-> [pos |-> NoCoords,  \* the tile the player stands on
                at |-> NoCoords,   \* the tile of the latest executed action
                dir |-> None,      \* the latest executed action
                moved |-> FALSE]]  \* whether that action changed the tile

InitQueue ==
    /\ InitMemory
    /\ ret = Ret("init", None, 0, None)
    /\ hist = InitHist


NextQueue ==
    \/ \E actions \in SeqsUpTo(RawTokens, 2) :
          Len(hist.enqHist) + Len(actions) <= MaxHist /\ enqueue_actions(actions)
    \/ pop_next_action
    \/ peek_next_action

SpecQueue == InitQueue /\ [][NextQueue]_vars

\* ------------------------------------------------------------------------
\* Specification of the goal tracker alone
\* ------------------------------------------------------------------------
SceneTypes == {"MAP", "BATTLE", "MENU", "DIALOGUE", "CUTSCENE", "TITLE", "UNKNOWN", "TRANSITION"}

\* Scene texts fed to the tracker
GoalTexts == { {}, {"truck"}, {"mom"}, {"clock"}, {"professor", "birch"}, {"upstairs", "2f", "second floor"},
               {"roxanne"} }

TrackerObs ==
    [scene_type : {"MAP", "DIALOGUE"}, summary : GoalTexts, key_elements : {{}, {"mom"}},
     loc : Locations, party_count : {0, 1}]

CompleteArgs == { GoalIds[i] : i \in 1..NGoals } \cup {"no_such_goal"}

InitGoals == InitQueue

NextGoals ==
    \/ get_active_goal
    \/ \E goal_id \in CompleteArgs : complete_current_goal(goal_id)
    \/ \E obs \in TrackerObs : update_goal_status(obs)

SpecGoals == InitGoals /\ [][NextGoals]_vars

\* ------------------------------------------------------------------------
\* Specification of the memory update between steps, with the queue filled
\* and drained around it
\* ------------------------------------------------------------------------
UpdateObs ==
    [loc : {"", "LITTLEROOT TOWN PLAYERS HOUSE 1F", "LITTLEROOT TOWN PLAYERS HOUSE 2F"},
     coords : {NoCoords, <<6, 2>>}]

\* the histories of the queue are not recorded outside SpecQueue
InitUpdate ==
    /\ InitMemory
    /\ ret = Ret("init", None, 0, None)
    /\ hist = [InitHist EXCEPT !.enqHist = Overflow, !.popped = Overflow]

NextUpdate ==
    \/ \E obs \in UpdateObs, last_act \in {None, "UP"} : update(obs, last_act)
    \/ \E actions \in SeqsUpTo({"UP", "A", "WAIT"}, 2) : enqueue_actions(actions)
    \/ pop_next_action

SpecUpdate == InitUpdate /\ [][NextUpdate]_vars

\* ------------------------------------------------------------------------
\* Specification of navigation: MAP steps under every goal, with the entry
\* coordinate set by update
\* ------------------------------------------------------------------------
HouseMap == "LITTLEROOT TOWN PLAYERS HOUSE 2F"

\* an observation of the given scene; the map section is present when
\* there are tiles
Observation(scene, summary, loc, coords, walkable, tiles) ==
    [scene_type |-> scene, summary |-> summary, key_elements |-> {}, loc |-> loc,
     ke_location |-> "",
     party_count |-> 0, coords |-> coords, walkable |-> walkable, preview |-> <<>>,
     map_name |-> HouseMap, state_map |-> IF tiles = <<>> THEN "" ELSE HouseMap,
     tiles |-> tiles]

\* a tile grid with stairs above the player's row and a door to the right
HouseGrid == << Tile(<<6, 1>>, "S"), Tile(<<6, 2>>, "."), Tile(<<7, 2>>, "D") >>

WalkableLists == { <<>>, << "UP", "DOWN" >>, << "LEFT" >>, << "DOWN", "RIGHT" >> }

\* MAP observations: every walkable list with and without position and grid,
\* one in the truck, one that reports the second floor
NavObs ==
    { Observation("MAP", {}, "", pos[1], walkable, pos[2]) :
        pos \in { << NoCoords, <<>> >>, << <<6, 2>>, HouseGrid >> },
        walkable \in WalkableLists }
    \cup { Observation("MAP", {"truck"}, "", NoCoords, << "LEFT" >>, <<>>),
           Observation("MAP", {}, HouseMap, <<6, 2>>, << "LEFT" >>, <<>>) }

NavReplies ==
    { Reply("none", <<>>),
      Reply("raise", <<>>),
      Reply("text", << Text("token", "UP", 0) >>),
      Reply("text", << Text("token", "DOWN", 0) >>),
      Reply("text", << Text("token", "A", 0) >>),
      Reply("text", << Text("token", "x", 0) >>),
      Reply("text", << Text("dir_count", "LEFT", 2) >>),
      Reply("text", << Text("dir_count", "UP", 0) >>),
      Reply("text", << Text("move", "RIGHT", -1) >>),
      Reply("text", << Text("press", "SELECT", 0) >>),
      Reply("json", << Text("token", "RIGHT", 0), Text("token", "A", 0) >>) }

\* The tracker has seen the player come up the stairs (update with the first
\* floor, then with the second floor) at one of two positions, or has seen
\* no location yet.
InitNav ==
    /\ InitUpdate
    /\ \/ location = None /\ entry_coords = [m \in MapNames \cup Locations |-> NoCoords]
       \/ /\ location = HouseMap
          /\ \E c \in { <<6, 1>>, <<6, 3>> } :
                entry_coords = [m \in MapNames \cup Locations |->
                                   IF m = HouseMap THEN c ELSE NoCoords]

NextNav ==
    \/ \E obs \in NavObs, reply \in NavReplies :
          decide(obs, reply) /\ Len(queue') <= MaxDecideQueue
    \/ \E goal_id \in CompleteArgs : complete_current_goal(goal_id)

SpecNav == InitNav /\ [][NextNav]_vars

\* ------------------------------------------------------------------------
\* Specification of a dialogue that does not end: dialogue and cutscene
\* steps, interrupted by battles and by the map
\* ------------------------------------------------------------------------
DialogueObs ==
    { Observation(scene, {}, "", NoCoords, <<>>, <<>>) :
        scene \in {"DIALOGUE", "CUTSCENE", "BATTLE", "MAP"} }
    \cup { Observation("MAP", {"truck"}, "", NoCoords, << "RIGHT" >>, <<>>) }

InitDialogue == InitUpdate

NextDialogue ==
    \E obs \in DialogueObs :
        /\ decide(obs, Reply("none", <<>>))
        /\ Len(queue') <= MaxDecideQueue
        /\ rf'.dialogue_streak <= MaxStreak

SpecDialogue == InitDialogue /\ [][NextDialogue]_vars

\* ------------------------------------------------------------------------
\* Specification of the openai variant: decide on every scene type, with the
\* queue refilled with [UP, A] whenever it is empty
\* ------------------------------------------------------------------------
OaObs ==
    { Observation(scene, {}, "", NoCoords, <<>>, <<>>) : scene \in SceneTypes }
    \cup { Observation("MAP", {"truck"}, "", NoCoords, <<>>, <<>>),
           Observation("MAP", {"mom"}, "", NoCoords, <<>>, <<>>),
           Observation("MENU", {"enter your name"}, "", NoCoords, <<>>, <<>>) }

OaReplies ==
    { Reply("none", <<>>),
      Reply("raise", <<>>),
      Reply("text", << Text("token", "UP", 0) >>),
      Reply("text", << Text("token", "A", 0) >>),
      Reply("text", << Text("move", "LEFT", 2) >>),
      Reply("text", << Text("press", "SELECT", 0) >>),
      Reply("json", << Text("token", "RIGHT", 0), Text("token", "A", 0) >>) }

InitOpenaiSpec ==
    /\ InitDeprecated
    /\ ret = Ret("init", None, 0, None)
    /\ hist = [InitHist EXCEPT !.enqHist = Overflow, !.popped = Overflow]
    /\ \/ oa = InitOpenai
       \/ oa = [InitOpenai EXCEPT !.status = << "pending", "pending" >>]
    /\ perc = NoPerception

NextOpenai ==
    \/ queue = <<>> /\ enqueue_actions(<< "UP", "A" >>)
    \/ \E obs \in OaObs, reply \in OaReplies, pick \in 1..4 :
          oa_decide(obs, reply, pick) /\ Len(queue') <= MaxDecideQueue

SpecOpenai == InitOpenaiSpec /\ [][NextOpenai]_vars

\* ------------------------------------------------------------------------
\* Specification of the queue under decide: the queue is filled with
\* [UP, A] whenever it is empty and decide sees every scene type
\* ------------------------------------------------------------------------
SceneObs ==
    { Observation(scene, {}, "", NoCoords, <<>>, <<>>) : scene \in SceneTypes }
    \cup { Observation("UNKNOWN", {"press start"}, "", NoCoords, <<>>, <<>>),
           Observation("MENU", {"enter your name"}, "", NoCoords, <<>>, <<>>),
           Observation("MAP", {}, "", <<6, 2>>, << "LEFT", "DOWN" >>, <<>>) }

\* the tracker at the start
InitScenes == InitUpdate

NextScenes ==
    \/ queue = <<>> /\ enqueue_actions(<< "UP", "A" >>)
    \/ \E obs \in SceneObs, reply \in {Reply("none", <<>>), Reply("text", << Text("dir_count", "LEFT", 2) >>)} :
          /\ decide(obs, reply)
          /\ Len(queue') <= MaxDecideQueue
          /\ rf'.dialogue_streak <= MaxShortStreak

SpecScenes == InitScenes /\ [][NextScenes]_vars

\* ------------------------------------------------------------------------
\* Specification of the scene classifier: analyze applied once to every
\* observation and every answer of the oracle
\* ------------------------------------------------------------------------
SceneReplies ==
    { SceneReply(TRUE, <<>>),
      SceneReply(FALSE, <<>>),
      SceneReply(FALSE, << Line("SceneType", "MAP"), Line("Summary", "Player on a route.") >>),
      SceneReply(FALSE, << Line("scenetype", "Dialogue") >>),
      SceneReply(FALSE, << Line("SceneType", "DIALOGUE"), Line("Summary", "A textbox.") >>),
      SceneReply(FALSE, << Line("SceneType", "unknown") >>),
      SceneReply(FALSE, << Line("SceneType", "OVERWORLD"), Line("Summary", "Player outside.") >>),
      SceneReply(FALSE, << Line("Scene", "MAP"), Line("Summary", "clock on the wall") >>),
      SceneReply(FALSE, << Line("SceneType", "BATTLE"), Line("SceneType", "MENU") >>),
      SceneReply(FALSE, << Line("SceneType", "MAP"), Line("SceneType", "overworld") >>),
      SceneReply(FALSE, << Line("SceneType", "TITLE"), Line("KeyElements", "Screen=Title") >>) }

InitPerception ==
    /\ InitDeprecated
    /\ oa = InitOpenai
    /\ ret = Ret("init", None, 0, None)
    /\ hist = InitHist
    /\ \E obs \in PercObs, reply \in SceneReplies : perc = Pending(obs, reply)

NextPerception == analyze

SpecPerception == InitPerception /\ [][NextPerception]_vars

\* ------------------------------------------------------------------------
\* Specification of persistence: updates and goal completions, with the
\* state saved and a new process started at any point
\* ------------------------------------------------------------------------
InitPersist == InitUpdate

NextPersist ==
    \/ \E obs \in UpdateObs, last_act \in {None, "UP"} : update(obs, last_act)
    \/ \E goal_id \in {"start_game", "leave_the_truck"} : complete_current_goal(goal_id)
    \/ \E ok \in BOOLEAN : save(ok)
    \/ restart

SpecPersist == InitPersist /\ [][NextPersist]_vars

\* ------------------------------------------------------------------------
\* Specification of the steps around a dialogue: decide on dialogue,
\* cutscene, battle, menu and map observations, the map with several
\* walkable lists
\* ------------------------------------------------------------------------
EscapeObs ==
    { Observation(scene, {}, "", NoCoords, <<>>, <<>>) :
        scene \in {"DIALOGUE", "CUTSCENE", "BATTLE", "MENU", "MAP"} }
    \cup { Observation("MAP", {}, "", NoCoords, w, <<>>) :
             w \in { << "UP", "LEFT" >>, << "DOWN", "RIGHT" >>, << "UP" >> } }

InitEscape ==
    /\ InitMemory
    /\ ret = Ret("init", None, 0, None)
    /\ hist = [InitHist EXCEPT !.enqHist = Overflow, !.popped = Overflow, !.track = TRUE]

NextEscape ==
    \E obs \in EscapeObs, reply \in {Reply("none", <<>>), Reply("text", << Text("dir_count", "UP", 2) >>)} :
        /\ decide(obs, reply)
        /\ Len(queue') <= MaxDecideQueue
        /\ rf'.dialogue_streak <= MaxShortStreak

SpecEscape == InitEscape /\ [][NextEscape]_vars

\* ------------------------------------------------------------------------
\* Specification of the hardcoded sequences: the tracker is advanced goal by
\* goal up to return_downstairs, and decide sees the bedroom at the tiles
\* (7,2) and (5,2), the map without coordinates, a dialogue and a menu
\* ------------------------------------------------------------------------
ScriptedObs ==
    { Observation("MAP", {}, l, c, <<>>, <<>>) :
        l \in {"", HouseMap}, c \in { <<7, 2>>, <<5, 2>>, NoCoords } }
    \cup { Observation(scene, {}, "", <<7, 2>>, <<>>, <<>>) : scene \in {"DIALOGUE", "MENU"} }

InitScripted == InitUpdate

NextScripted ==
    \/ \E obs \in ScriptedObs :
          /\ decide(obs, Reply("none", <<>>))
          /\ Len(queue') <= MaxDecideQueue
          /\ rf'.dialogue_streak <= MaxShortStreak
    \/ /\ current \in 1..5
       /\ complete_current_goal(GoalIds[current])
    \/ pop_next_action

SpecScripted == InitScripted /\ [][NextScripted]_vars

\* ------------------------------------------------------------------------
\* Specification of the two trackers on the way upstairs: each variant's
\* update_goal_status sees scene texts that speak of the upper floor and
\* locations on the first and on the second floor
\* ------------------------------------------------------------------------
UpstairsTexts == { {}, {"truck"}, {"mom"}, {"upstairs"}, {"2f"}, {"second floor"} }
UpstairsLocs == {"", "LITTLEROOT TOWN PLAYERS HOUSE 1F", "LITTLEROOT TOWN PLAYERS HOUSE 2F"}

\* loc is state.player.location, read by the deprecated variant; ke_location
\* is key_elements["Location"], read by the openai variant
UpstairsObs ==
    { [Observation(scene, text, l, NoCoords, <<>>, <<>>) EXCEPT !.ke_location = l] :
        scene \in {"MAP", "DIALOGUE"}, text \in UpstairsTexts, l \in UpstairsLocs }

InitUpstairs ==
    /\ InitDeprecated
    /\ ret = Ret("init", None, 0, None)
    /\ hist = [InitHist EXCEPT !.enqHist = Overflow, !.popped = Overflow]
    /\ oa = [InitOpenai EXCEPT !.status = << "pending", "pending", "pending" >>]
    /\ perc = NoPerception

NextUpstairs ==
    \E obs \in UpstairsObs :
        \/ update_goal_status(obs) /\ current' \in 0..4
        \/ oa_update(obs)
        \/ oa_update_goal_status(obs)

SpecUpstairs == InitUpstairs /\ [][NextUpstairs]_vars

\* ------------------------------------------------------------------------
\* Specification of the agent's steps: decide on the observation of the
\* step, then memory_step with the same observation and the action decide
\* returned (memory.py:441-468)
\* ------------------------------------------------------------------------
StepObs ==
    { Observation("MAP", {}, l, c, w, <<>>) :
        l \in {"", "LITTLEROOT TOWN PLAYERS HOUSE 1F", "LITTLEROOT TOWN PLAYERS HOUSE 2F"},
        c \in {NoCoords, <<6, 2>>},
        w \in { <<>>, << "LEFT" >> } }

StepReplies == { Reply("none", <<>>), Reply("text", << Text("dir_count", "LEFT", 2) >>) }

InitStep ==
    /\ InitMemory
    /\ ret = Ret("init", None, 0, None)
    /\ hist = [InitHist EXCEPT !.enqHist = Overflow, !.popped = Overflow, !.track = TRUE]

NextStep ==
    \/ /\ ret.op # "decide"
       /\ \E obs \in StepObs, reply \in StepReplies :
             decide(obs, reply) /\ Len(queue') <= MaxDecideQueue
    \/ /\ ret.op = "decide"
       /\ update([loc |-> hist.stepLoc, coords |-> hist.stepCoords], ret.action)

SpecStep == InitStep /\ [][NextStep]_vars

\* ------------------------------------------------------------------------
\* Specification of the openai tracker over its whole plan: every goal of
\* DEFAULT_EMERALD_LT_PLAN is pending, and update and update_goal_status see
\* map observations with a text that carries a cue of one goal, with and
\* without a location
\* ------------------------------------------------------------------------
PlanTexts ==
    { {"come see me"}, {"mom"}, {"this is your room"}, {"set the clock"}, {"downstairs"},
      {"outside"}, {"birch's lab"}, {"route 101"}, {"chose mudkip"}, {"defeated may"},
      {"oldale town"}, {"petalburg city"}, {"petalburg woods"}, {"rustboro city"},
      {"roxanne"}, {"route 116"}, {"team aqua"} }

PlanObs ==
    { Observation("MAP", text, "", NoCoords, <<>>, <<>>) : text \in PlanTexts }
    \cup { [Observation("MAP", {}, "", NoCoords, <<>>, <<>>) EXCEPT !.ke_location = l] :
             l \in {"LITTLEROOT TOWN PLAYERS HOUSE 2F", "LITTLEROOT TOWN"} }

InitPlan ==
    /\ InitDeprecated
    /\ ret = Ret("init", None, 0, None)
    /\ hist = [InitHist EXCEPT !.enqHist = Overflow, !.popped = Overflow]
    /\ oa = [InitOpenai EXCEPT !.status = [i \in 1..Len(OaGoalIds) |-> "pending"]]
    /\ perc = NoPerception

NextPlan ==
    \E obs \in PlanObs :
        \/ oa_update(obs)
        \/ oa_update_goal_status(obs)

SpecPlan == InitPlan /\ [][NextPlan]_vars

\* ------------------------------------------------------------------------
\* Specification of the queue over many steps without a location: decide
\* sees dialogue, battle and map observations and the oracle gives no reply
\* ------------------------------------------------------------------------
MaxLongQueue == 34

GrowthObs ==
    { Observation(scene, {}, "", NoCoords, <<>>, <<>>) :
        scene \in {"DIALOGUE", "BATTLE", "MAP"} }

InitGrowth ==
    /\ InitMemory
    /\ ret = Ret("init", None, 0, None)
    /\ hist = [InitHist EXCEPT !.enqHist = Overflow, !.popped = Overflow]

NextGrowth ==
    \E obs \in GrowthObs :
        /\ decide(obs, Reply("none", <<>>))
        /\ Len(queue') <= MaxLongQueue
        /\ rf'.dialogue_streak <= MaxShortStreak

SpecGrowth == InitGrowth /\ [][NextGrowth]_vars

\* ------------------------------------------------------------------------
\* Specification of the modules of one process: the tracker of the module
\* in use is advanced and saved, and a new module is constructed in the
\* same process
\* ------------------------------------------------------------------------
InitFresh == InitUpdate

NextFresh ==
    \/ get_active_goal
    \/ current # 0 /\ complete_current_goal(GoalIds[current])
    \/ save(TRUE)
    \/ construct

SpecFresh == InitFresh /\ [][NextFresh]_vars

\* ------------------------------------------------------------------------
\* Specification of the steps on a map: the observation reports the tile the
\* player stands on, decide chooses, action_step turns the action into
\* buttons, the buttons are pressed (a direction
\* moves the player to the neighbouring tile or is blocked), then memory_step
\* is called with the observation and the action of the step
\* (memory.py:441-468)
\* ------------------------------------------------------------------------
Delta(d) ==
    CASE d = "UP" -> <<0, -1>>
      [] d = "DOWN" -> <<0, 1>>
      [] d = "LEFT" -> <<-1, 0>>
      [] d = "RIGHT" -> <<1, 0>>
      [] OTHER -> <<0, 0>>

Neighbour(c, d) == << c[1] + Delta(d)[1], c[2] + Delta(d)[2] >>

\* _parse_action (action.py:15-29) on the action decide returned, a single
\* token: no action gives A, a button gives itself, and any other word has
\* no button among its tokens and gives A
ParseAction(action_str) ==
    IF action_str \in {None, ""} THEN << "A" >>
    ELSE IF StripUpper(action_str) \in VALID_BUTTONS THEN << StripUpper(action_str) >>
    ELSE << "A" >>

\* action_step (action.py:50-63) on the output of decide; the buttons are
\* kept in ret.parsed
action_step ==
    /\ ret.op = "decide"
    /\ ret' = [ret EXCEPT !.op = "action_step",
                          !.parsed = SelectSeq(ParseAction(ret.action),
                                               LAMBDA b : b \in VALID_BUTTONS)]
    /\ UNCHANGED << queue, status, current, last_action, location, rf, naming_handled,
                    explored_map, entry_coords, failed_movements, last_coords, oa,
                    perc, disk, callers, hist, default_plan >>

\* the buttons of action_step are pressed (one button, decide returns one
\* token): a direction moves the player to the neighbouring tile or leaves
\* the player in place, any other button leaves the player in place
execute ==
    /\ ret.op = "action_step"
    /\ LET pressed == IF ret.parsed = <<>> THEN None ELSE ret.parsed[1]
       IN  \E target \in {hist.world.pos}
                         \cup (IF pressed \in Directions
                               THEN {Neighbour(hist.world.pos, pressed)} \cap Coords
                               ELSE {}) :
              hist' = [hist EXCEPT !.world = [pos |-> target, at |-> hist.world.pos,
                                              dir |-> pressed,
                                              moved |-> target # hist.world.pos]]
    /\ ret' = [ret EXCEPT !.op = "execute"]
    /\ UNCHANGED << queue, status, current, last_action, location, rf, naming_handled,
                    explored_map, entry_coords, failed_movements, last_coords, oa,
                    perc, disk, callers, default_plan >>

MoveReplies == { Reply("text", << Text("token", d, 0) >>) : d \in {"UP", "LEFT", "A"} }

InitMove ==
    /\ InitMemory
    /\ ret = Ret("init", None, 0, None)
    /\ hist = [InitHist EXCEPT !.enqHist = Overflow, !.popped = Overflow, !.track = TRUE,
                               !.world = [@ EXCEPT !.pos = <<6, 2>>]]

NextMove ==
    \/ /\ ret.op \in {"init", "update"}
       /\ \E reply \in MoveReplies, scene \in {"MAP", "TRANSITION"} :
             decide(Observation(scene, {}, "", hist.world.pos, <<>>, <<>>), reply)
    \/ action_step
    \/ execute
    \/ /\ ret.op = "execute"
       /\ update([loc |-> hist.stepLoc, coords |-> hist.stepCoords], ret.action)

SpecMove == InitMove /\ [][NextMove]_vars

\* ------------------------------------------------------------------------
\* Specification of the reply parser: _parse_actions applied once to every
\* reply of a bounded set, with and without multi-action
\* ------------------------------------------------------------------------
MaxCount == 4

ParseTexts ==
    { Text("token", tok, 0) : tok \in {"UP", "DOWN", "A", "SELECT", " up ", "x"} }
    \cup { Text("dir_count", d, n) : d \in {"UP", "LEFT"}, n \in 0..MaxCount }
    \cup { Text("move", d, n) : d \in {"UP", "LEFT"}, n \in (-1)..MaxCount }
    \cup { Text("press", tok, 0) : tok \in {"A", "SELECT", "UP"} }

\* the items of the JSON arrays
ParseItems ==
    { Text("token", "A", 0), Text("token", "x", 0), Text("token", "RIGHT", 0),
      Text("dir_count", "UP", 0), Text("dir_count", "UP", 3), Text("press", "B", 0) }

ParseReplies ==
    { Reply("none", <<>>) }
    \cup { Reply("text", << t >>) : t \in ParseTexts }
    \cup { Reply("json", items) : items \in SeqsUpTo(ParseItems, 2) }
    \cup { Reply("json", << Text("dir_count", "UP", 3), Text("token", "A", 0),
                           Text("token", "B", 0) >>),
           Reply("json", << Text("token", "A", 0), Text("token", "B", 0),
                           Text("token", "UP", 0), Text("token", "DOWN", 0) >>) }

InitParse ==
    /\ InitMemory
    /\ hist = InitHist
    /\ \E reply \in ParseReplies, allow_multi \in BOOLEAN :
          ret = [Ret("init", None, 0, None) EXCEPT
                    !.input = [waiting |-> TRUE, reply |-> reply,
                               allow_multi |-> allow_multi]]

NextParse == parse_actions

SpecParse == InitParse /\ [][NextParse]_vars

\* ------------------------------------------------------------------------
\* Specification of two callers of complete_current_goal: one thread first
\* advances the plan, call by call; then each of the two callers calls once,
\* with the id of the goal that was first pending when the first of them
\* began, or with an id of no goal
\* ------------------------------------------------------------------------
InitCallers == InitQueue

NoneCalled == \A c \in CallerIds : callers[c].pc = "idle"

\* the goal the two callers complete
Target == IF NoneCalled THEN FirstPendingFrom(status, 1) ELSE hist.firstActive

NextCallers ==
    \/ NoneCalled /\ get_active_goal
    \/ NoneCalled /\ FirstPendingFrom(status, 1) # 0
          /\ complete_current_goal(GoalIds[FirstPendingFrom(status, 1)])
    \/ \E c \in CallerIds :
          \/ /\ Target # 0
             /\ \E goal_id \in {GoalIds[Target], "no_such_goal"} : cc_check(c, goal_id)
          \/ cc_auto(c)
          \/ cc_mark(c)
          \/ cc_activate(c)

SpecCallers == InitCallers /\ [][NextCallers]_vars

\* ========================================================================
\* Properties
\* ========================================================================
\* the raw tokens of h, normalised, that are members of alphabet
FilterTo(h, alphabet) ==
    LET norm == [i \in 1..Len(h) |-> StripUpper(h[i])]
    IN  SelectSeq(norm, LAMBDA t : t \in alphabet)

Recorded == hist.enqHist # Overflow /\ hist.popped # Overflow

\* C1 (queue FIFO): at every moment the tokens popped so far followed by the
\* tokens still queued are exactly the enqueued tokens of the allowed
\* alphabet in the order they were enqueued; a pop returns the oldest token
\* not yet popped, and returns null once every one of them has been popped.
FifoState ==
    Recorded => hist.popped \o queue = FilterTo(hist.enqHist, ALLOWED_BTNS)
FifoStep ==
    (Recorded /\ ret'.op = "pop_next_action" /\ hist'.popped # Overflow) =>
        LET expected == FilterTo(hist.enqHist, ALLOWED_BTNS)
            n == Len(hist.popped)
        IN  /\ n < Len(expected) =>
                ret'.action = expected[n + 1] /\ hist'.popped = Append(hist.popped, expected[n + 1])
            /\ n = Len(expected) => ret'.action = None /\ hist'.popped = hist.popped
C1_QueueFifo == []FifoState /\ [][FifoStep]_vars

\* witness of C1: two tokens were popped in order, an invalid token was
\* dropped on the way, and the pop after the last token returned null
C1_Witness ==
    /\ Recorded
    /\ Len(hist.popped) = 2
    /\ Len(hist.enqHist) = 3
    /\ hist.popped[1] # hist.popped[2]
    /\ ret.op = "pop_next_action"
    /\ ret.action = None

\* C2 (queue alphabet): enqueue_actions appends exactly the tokens that are
\* one of the eight buttons UP, DOWN, LEFT, RIGHT, A, B, START, SELECT, in
\* order, and drops every other token.
C2_EightButtonAlphabet ==
    [][(ret'.op = "enqueue_actions" /\ hist.enqHist # Overflow /\ hist'.enqHist # Overflow) =>
        LET given == SubSeq(hist'.enqHist, Len(hist.enqHist) + 1, Len(hist'.enqHist))
        IN  queue' = queue \o FilterTo(given, VALID_BUTTONS)]_vars

\* C3 (goal order): the completed goals are a prefix of the plan, at most
\* one goal is active, and the active goal is the first goal not completed.
IsActive(i) == current = i
C3_GoalOrder ==
    /\ \A i, j \in 1..NGoals : (i < j /\ status[j] = "completed") => status[i] = "completed"
    /\ Cardinality({i \in 1..NGoals : IsActive(i)}) <= 1
    /\ current # 0 =>
          /\ status[current] # "completed"
          /\ \A j \in 1..(current - 1) : status[j] = "completed"

\* witness of C3: three goals completed in order, the fourth is active
C3_Witness ==
    /\ status[3] = "completed"
    /\ current = 4
    /\ hist.completions = 3

\* C4 (scenario D): with goal x active, complete_current_goal(y) for another,
\* pending goal y changes no goal status and not the active pointer.
C4_ScenarioD ==
    [][(/\ current # 0
        /\ ret'.op = "complete_current_goal"
        /\ FirstWithId(ret'.arg) # 0
        /\ ret'.arg # GoalIds[current]
        /\ status[FirstWithId(ret'.arg)] = "pending")
       => (status' = status /\ current' = current)]_vars

\* witness of C4: the last call was complete_current_goal(y) for a pending
\* goal y that is not the active goal x, and x is still active
C4_Witness ==
    /\ ret.op = "complete_current_goal"
    /\ current # 0
    /\ FirstWithId(ret.arg) # 0
    /\ ret.arg # GoalIds[current]
    /\ status[FirstWithId(ret.arg)] = "pending"
    /\ status[current] = "pending"
    /\ hist.completions >= 1

\* C5 (goal monotonicity): after N completions get_active_goal returns the
\* (N+1)-th goal of the plan, null when N is the plan length; after it has
\* returned null once, it returns null on every later call.
C5_NthGoal ==
    ret.op = "get_active_goal" =>
        /\ ret.goal = (IF hist.completions < NGoals THEN hist.completions + 1 ELSE 0)
        /\ hist.sawNull => ret.goal = 0

\* witness of C5: every goal was completed and get_active_goal returned null
C5_Witness ==
    /\ ret.op = "get_active_goal"
    /\ ret.goal = 0
    /\ hist.completions = NGoals
    /\ hist.sawNull

\* C6 (idempotent auto-activation): a get_active_goal call that directly
\* follows a get_active_goal call returns the same goal and changes neither
\* the plan nor the active pointer.
C6_IdempotentActivation ==
    [][(ret.op = "get_active_goal" /\ ret'.op = "get_active_goal" /\ hist.getRun >= 1)
       => (ret'.goal = ret.goal /\ status' = status /\ current' = current)]_vars

\* witness of C6: get_active_goal was called at least twice in a row and
\* returned a goal
C6_Witness ==
    /\ ret.op = "get_active_goal"
    /\ hist.getRun >= 2
    /\ ret.goal # 0
    /\ current = ret.goal

\* C7 (map-change queue invalidation): when an update receives a non-empty
\* location that differs from the non-empty location the previous update
\* received, the queue is empty when it returns, whatever it held before.
C7_MapChangeClearsQueue ==
    [][(/\ ret'.op = "update"
        /\ hist.prevUpdateLoc \notin {None, ""}
        /\ hist'.prevUpdateLoc # ""
        /\ hist'.prevUpdateLoc # hist.prevUpdateLoc)
       => queue' = <<>>]_vars

\* witness of C7: the latest update saw a new location and removed queued
\* tokens
C7_Witness ==
    /\ ret.op = "update"
    /\ ret.arg # ""
    /\ ret.arg = location
    /\ ret.n >= 2
    /\ queue = <<>>

Listed(a, list) == \E i \in 1..Len(list) : list[i] = a

\* C8 (movement validation): on the navigation path, when the walkable set
\* is not empty and the oracle's action is a direction outside it, decide
\* does not return that direction.
C8_BlockedProposalNotReturned ==
    (/\ ret.op = "decide"
     /\ ret.reason = "validated_navigation"
     /\ ret.nav.walkable # <<>>
     /\ ret.nav.proposed \in Directions
     /\ ~Listed(ret.nav.proposed, ret.nav.walkable))
    => ret.action # ret.nav.proposed

\* witness of C8: under go_upstairs the oracle proposed DOWN, which is
\* blocked; the hard override turned it into UP, blocked as well, and the
\* walkability check replaced it
C8_Witness ==
    /\ ret.op = "decide"
    /\ ret.reason = "validated_navigation"
    /\ ret.nav.goal_id = "go_upstairs"
    /\ ret.nav.proposed = "DOWN"
    /\ ret.nav.walkable = << "LEFT" >>
    /\ ret.action = "LEFT"

\* C9 (dialogue escalation): in a run of dialogue or cutscene steps that
\* began with a streak of zero, the k-th step returns A for k < 40, B for
\* 40 <= k < 60 and START for k >= 60.
Ladder(k) == IF k < 40 THEN "A" ELSE IF k < 60 THEN "B" ELSE "START"
C9_DialogueEscalation ==
    (ret.op = "decide" /\ hist.dlgRun >= 1 /\ hist.dlgBase = 0)
    => ret.action = Ladder(hist.dlgRun)

\* witness of C9: the 60th dialogue step of a run that began at streak zero
\* returned START
C9_Witness ==
    /\ ret.op = "decide"
    /\ hist.dlgBase = 0
    /\ hist.dlgRun = 60
    /\ ret.action = "START"

BeforeQueue(r) ==
    \/ r.arg \in {"TITLE", "BATTLE", "DIALOGUE", "CUTSCENE"}
    \/ r.arg = "UNKNOWN" /\ r.title_kw

C11_ScenarioA ==
    [][(/\ ret'.op = "decide"
        /\ ret'.arg = "MAP"
        /\ queue = <<>>
        /\ current' # 0
        /\ GoalIds[current'] = "leave_the_truck"
        /\ InText("truck", ret'.summary))
       => (ret'.action = "RIGHT" /\ ret'.reason = "truck_exit" /\ ~ret'.oracle)]_vars

\* C11 amended: the same, for a call that does not enqueue the post-dialogue
\* escape step.
C11_TruckExit ==
    [][(/\ ret'.op = "decide"
        /\ ret'.arg = "MAP"
        /\ queue = <<>>
        /\ ret'.enq = <<>>
        /\ current' # 0
        /\ GoalIds[current'] = "leave_the_truck"
        /\ InText("truck", ret'.summary))
       => (ret'.action = "RIGHT" /\ ret'.reason = "truck_exit" /\ ~ret'.oracle)]_vars

\* witness of C11: decide left the truck under leave_the_truck
C11_Witness ==
    /\ ret.op = "decide"
    /\ ret.arg = "MAP"
    /\ ret.reason = "truck_exit"
    /\ ret.action = "RIGHT"
    /\ ~ret.oracle
    /\ InText("truck", ret.summary)
    /\ current # 0
    /\ GoalIds[current] = "leave_the_truck"
    /\ queue = <<>>

\* C12 (hard per-goal override): on the navigation path, with go_upstairs
\* active and UP in the walkable set, decide returns UP whatever the oracle
\* replied.
C12_HardOverride ==
    (/\ ret.op = "decide"
     /\ ret.oracle
     /\ ret.reason # "raised"
     /\ ret.nav.goal_id = "go_upstairs"
     /\ Listed("UP", ret.nav.walkable))
    => ret.action = "UP"

\* C13 (battle and title bypass the queue): in both planning variants a
\* step classified BATTLE or TITLE returns A and removes no token from the
\* queue.
C13_BattleTitleBypass ==
    [][(/\ ret'.op \in {"decide", "oa_decide"}
        /\ ret'.arg \in {"BATTLE", "TITLE"})
       => (/\ ret'.action = "A"
           /\ ret'.n = 0
           /\ Len(queue') >= Len(queue)
           /\ SubSeq(queue', 1, Len(queue)) = queue)]_vars

\* C14 (decide is total): every call of decide returns one of the eight
\* button tokens or WAIT.
C14_DecideTotal ==
    ret.op = "decide" => ret.action \in VALID_BUTTONS \cup {"WAIT"}

\* C15 (oracle failure degrades safely): when the oracle call of the
\* navigation path raises, decide does not pass the failure on to its caller;
\* it returns the first walkable direction, or A when none is walkable.
C15_OracleFailureSafe ==
    ret.op = "decide" => (ret.reason # "raised" /\ ret.action # "EXCEPTION")

\* C16 (decision cache): when two consecutive decide calls of the openai
\* variant see the same scene type, summary and active goal, and the first
\* consulted the oracle, the second returns the first's result without
\* consulting the oracle.
C16_DecisionCache ==
    [][(/\ ret.op = "oa_decide"
        /\ ret.oracle
        /\ ret'.op = "oa_decide"
        /\ ret'.arg = ret.arg
        /\ ret'.summary = ret.summary
        /\ ret'.goal = ret.goal)
       => (~ret'.oracle /\ ret'.action = ret.action /\ ret'.reason = ret.reason)]_vars

\* the first flag set in the observation o, in the order title, battle,
\* dialogue, menu, cutscene; None when no flag is set
FirstFlag(o) ==
    IF o.title THEN "TITLE"
    ELSE IF o.battle THEN "BATTLE"
    ELSE IF o.dialogue THEN "DIALOGUE"
    ELSE IF o.menu THEN "MENU"
    ELSE IF o.cutscene THEN "CUTSCENE"
    ELSE None

\* C17: the label chosen from the flags is the first flag set in the order
\* TITLE, BATTLE, DIALOGUE, MENU, CUTSCENE, and it is MAP only when none of the
\* five flags is set and the observation has a map name or both coordinates
C17_FlagPriority ==
    perc.called =>
        /\ FirstFlag(perc.obs) # None => perc.flags = FirstFlag(perc.obs)
        /\ perc.flags = "MAP" =>
              /\ FirstFlag(perc.obs) = None
              /\ perc.obs.map_name # "" \/ PosOf(perc.obs.player) # NoCoords

\* C17: dialogue, menu and cutscene are set together with a map name, and the
\* label from the flags is DIALOGUE
C17_Witness ==
    /\ perc.called
    /\ ~perc.obs.title /\ ~perc.obs.battle
    /\ perc.obs.dialogue /\ perc.obs.menu /\ perc.obs.cutscene
    /\ perc.obs.map_name # ""
    /\ perc.flags = "DIALOGUE"

\* C18: analyze never returns DIALOGUE for an observation with a non-empty
\* tile grid and a player position that has both x and y
C18_DialogueOverride ==
    (perc.called /\ perc.obs.tiles # <<>> /\ PosOf(perc.obs.position) # NoCoords)
        => perc.scene_type # "DIALOGUE"

\* the SceneType of a reply: the upper-cased value of its last SceneType line,
\* None when it has no such line
ReplySceneType(lines) ==
    LET at == { i \in 1..Len(lines) : LowerHead(lines[i].head) = "scenetype" }
    IN  IF at = {} THEN None
        ELSE UpperValue(lines[CHOOSE i \in at : \A j \in at : j <= i].value)

C20_RoundTrip ==
    [][(ret.op = "save" /\ ret.reason # "failed" /\ ret'.op = "load")
       => (/\ status' = status
           /\ explored_map' = explored_map
           /\ failed_movements' = failed_movements
           /\ naming_handled' = naming_handled
           /\ current' = current
           /\ location' = location)]_vars
\* C21 (rejected completion before activation): when no goal is active yet,
\* some goal is pending and complete_current_goal is called with an id that
\* is not the id of the first pending goal, every goal status and the active
\* pointer, still null, are as before the call.
C21_RejectedUnchanged ==
    [][(/\ ret'.op = "complete_current_goal"
        /\ current = 0
        /\ FirstPendingFrom(status, 1) # 0
        /\ ret'.arg # GoalIds[FirstPendingFrom(status, 1)])
       => (status' = status /\ current' = 0)]_vars
\* both callers have returned from complete_current_goal(x), x the goal that
\* was first pending when they began
BothCalled ==
    \A c \in CallerIds :
        callers[c].pc = "done" /\ callers[c].goal_id = GoalIds[hist.firstActive]

\* C22 (duplicate completion): after two callers have each called
\* complete_current_goal(x) for the active goal x, in sequence or with their
\* steps interleaved, x and the goals before it are completed and no other,
\* and the goal after x is active and pending.
C22_DuplicateCompletion ==
    BothCalled =>
        /\ \A i \in 1..NGoals :
              status[i] = IF i <= hist.firstActive THEN "completed" ELSE "pending"
        /\ current = IF hist.firstActive < NGoals THEN hist.firstActive + 1 ELSE 0

\* C22: both callers passed the check before either had marked the goal, and
\* both have returned
C22_Witness ==
    /\ BothCalled
    /\ \A c \in CallerIds : callers[c].i = hist.firstActive
    /\ hist.firstActive < NGoals
    /\ ret.op = "cc_activate"
\* C23 (streak reset on scene change): at every DIALOGUE/CUTSCENE step the
\* dialogue streak equals the number of dialogue-like steps in a row up to
\* and including this one; a step of any other scene type in between resets
\* the count.
C23_StreakIsRun ==
    (ret.op = "decide" /\ ret.arg \in DialogueLike)
    => rf.dialogue_streak = hist.dlgRun
\* the burst the dialogue handler enqueues on entry
ABurst == << "A", "A", "A", "A" >>

\* C24 (dialogue-entry burst): a DIALOGUE/CUTSCENE step that directly follows
\* a step of another scene type enqueues the burst of four A presses, and a
\* dialogue step that directly follows a dialogue step enqueues no burst.
C24_EntryBurst ==
    [][(ret.op = "decide" /\ ret'.op = "decide" /\ ret'.arg \in DialogueLike)
       => (ret'.enq = ABurst <=> ret.arg \notin DialogueLike)]_vars
\* the first of RIGHT, DOWN, LEFT, UP that occurs in the list w
FirstPreferred(w) ==
    LET preferred == << "RIGHT", "DOWN", "LEFT", "UP" >>
        In(a) == \E i \in 1..Len(w) : w[i] = a
        k == CHOOSE k \in 1..4 : In(preferred[k]) /\ \A j \in 1..(k - 1) : ~In(preferred[j])
    IN  preferred[k]

\* C25 (post-dialogue escape): a MAP step that directly follows a dialogue
\* step and has a non-empty walkable list enqueues one escape token, the
\* first of RIGHT, DOWN, LEFT, UP that is walkable; and between two dialogue
\* episodes at most one escape token is enqueued.
C25_EscapeOnce ==
    [][/\ (/\ ret.op = "decide" /\ ret.arg \in DialogueLike
           /\ ret'.op = "decide" /\ ret'.arg = "MAP"
           /\ hist'.stepWalkable # <<>>)
          => (/\ hist'.esc = FirstPreferred(hist'.stepWalkable)
              /\ ret'.enq = << hist'.esc >>)
       /\ hist'.escCount <= 1]_vars

\* C25: a map step after a dialogue enqueued LEFT for the walkable list
\* [UP, LEFT], and a later map step with a walkable list enqueued nothing
C25_Witness ==
    /\ ret.op = "decide" /\ ret.arg = "MAP"
    /\ hist.stepWalkable = << "UP", "LEFT" >>
    /\ hist.esc = None
    /\ hist.escCount = 1
    /\ rf.post_dialogue_escape_done
    /\ last_action = "LEFT"
\* the hardcoded sequences: tokens, goal, runtime flag
ScriptedBursts ==
    { [tokens |-> << "LEFT", "LEFT", "UP", "A", "A" >>, goal |-> 4,
       flag |-> "clock_sequence_queued"],
      [tokens |-> << "A", "UP", "A", "UP", "A", "UP", "A", "UP" >>, goal |-> 5,
       flag |-> "set_clock_sequence_queued"],
      [tokens |-> << "RIGHT", "DOWN", "DOWN", "DOWN", "DOWN" >>, goal |-> 6,
       flag |-> "downstairs_sequence_queued"] }

\* the call that gave r enqueued the sequence b
Fired(b, r) ==
    /\ r.op = "decide"
    /\ Len(r.enq) >= Len(b.tokens)
    /\ SubSeq(r.enq, 1, Len(b.tokens)) = b.tokens

\* C26 (scripted bursts fire once): a hardcoded sequence is enqueued only
\* while its flag is down and raises it, and no step lowers a flag; it is
\* enqueued only on a MAP step; its goal, pending before the call with every
\* earlier goal completed after it, is completed by the call, and the first
\* pending goal after it is the active goal.
C26_BurstOnce ==
    [][\A b \in ScriptedBursts :
          /\ rf[b.flag] => rf'[b.flag]
          /\ Fired(b, ret') =>
                /\ ~rf[b.flag] /\ rf'[b.flag]
                /\ ret'.arg = "MAP"
                /\ GoalIds[b.goal] \in {"player_bedroom_entered", "set_bedroom_clock",
                                        "return_downstairs"}
                /\ status[b.goal] = "pending" /\ status'[b.goal] = "completed"
                /\ \A i \in 1..(b.goal - 1) : status'[i] = "completed"
                /\ current' = FirstPendingFrom(status', b.goal + 1)]_vars

\* C26: all three sequences have been enqueued and their goals completed,
\* and decide is called again on the tile (7,2)
C26_Witness ==
    /\ \A b \in ScriptedBursts : rf[b.flag] /\ status[b.goal] = "completed"
    /\ ret.op = "decide" /\ ret.arg = "MAP" /\ ret.enq = <<>>
    /\ current = 7
\* the confirm burst of the naming path
NamingBurst == << "A", "A", "A", "A", "START" >>

\* C27 (naming handled once): the naming path is taken only while
\* naming_handled is false; it sets the flag, returns START and enqueues the
\* confirm burst; once the flag is true it stays true and no later step takes
\* the naming path.
C27_NamingOnce ==
    [][/\ naming_handled => naming_handled'
       /\ (ret'.op = "decide" /\ ret'.reason = "naming")
          => (/\ ~naming_handled /\ naming_handled'
              /\ ret'.arg = "MENU" /\ ret'.action = "START"
              /\ ret'.enq = NamingBurst)
       /\ (naming_handled /\ ret'.op = "decide")
          => (ret'.reason # "naming" /\ ret'.enq # NamingBurst)]_vars

\* C27: with the flag set, a MENU step whose summary has a naming keyword and
\* that finds the queue empty takes no naming path
C27_Witness ==
    /\ naming_handled
    /\ ret.op = "decide" /\ ret.arg = "MENU"
    /\ InText("name", ret.summary)
    /\ ret.reason # "queued"
    /\ ret.reason # "naming"
\* go_upstairs in the plan of the deprecated variant and of the openai variant
UpstairsGoal == CHOOSE i \in 1..NGoals : GoalIds[i] = "go_upstairs"

\* the call that gave r was told a location on the second floor
ReportedUpstairs(r) == \E l \in r.locs : InLoc("2f", l)

\* C28 (go_upstairs needs the reported floor): in either variant,
\* update_goal_status completes the pending goal go_upstairs only if the
\* location it is told contains 2f, whatever the scene text says.
C28_UpstairsNeedsFloor ==
    [][/\ (/\ ret'.op = "update_goal_status"
           /\ GoalIds[UpstairsGoal] = "go_upstairs"
           /\ status[UpstairsGoal] = "pending"
           /\ status'[UpstairsGoal] = "completed")
          => ReportedUpstairs(ret')
       /\ (/\ ret'.op = "oa_update_goal_status"
           /\ OaGoalIds[UpstairsGoal] = "go_upstairs"
           /\ oa.status[UpstairsGoal] = "pending"
           /\ oa'.status[UpstairsGoal] = "completed")
          => ReportedUpstairs(ret')]_vars

\* C28: with go_upstairs active in both variants, the openai tracker has just
\* been given a text with "upstairs" and the first floor, and both goals are
\* still open
C28_Witness ==
    /\ ret.op = "oa_update_goal_status"
    /\ InText("upstairs", ret.summary)
    /\ ~ReportedUpstairs(ret)
    /\ ret.goal = UpstairsGoal
    /\ OaGetActiveGoal(oa.status) = UpstairsGoal
    /\ GetActiveGoal(status, current) = UpstairsGoal
\* C29 (fallback cue matching): while rustboro_gym_challenge, a goal without
\* a rule of its own, is the active goal, update_goal_status on a text that
\* contains one of its completion cues completes it.
C29_FallbackCue ==
    [][(/\ ret'.op = "update_goal_status"
        /\ GoalIds[NGoals] = "rustboro_gym_challenge"
        /\ GetActiveGoal(status, current) = NGoals
        /\ AnyInText({"roxanne", "stone badge"}, ret'.summary))
       => status'[NGoals] = "completed"]_vars
\* C30 (no stale plan on a new map): with decide followed by the memory
\* update in every step, a token decide returns from the queue was enqueued
\* while the stored location was the map the step's observation reports, or
\* while no location was stored, or the observation reports no location.
C30_NoStalePlan ==
    (ret.op = "decide" /\ ret.reason = "queued")
    => \/ hist.poppedLoc = None
       \/ hist.stepLoc = ""
       \/ hist.poppedLoc = hist.stepLoc
\* the call that gave r went through the MAP navigation path and got an
\* answer from the oracle
NavReturn(r) == r.op = "decide" /\ r.arg = "MAP" /\ r.oracle /\ r.reason # "raised"

\* the directions of a walkable list
WalkableSet(w) == { w[i] : i \in 1..Len(w) }

\* C31 (movement-only goals): with a movement-only goal active, the MAP
\* navigation path never returns A, B, START or SELECT; and when the action
\* read from the reply is not a direction, it returns a walkable direction
\* if there is one and WAIT if there is none.
C31_MovementOnly ==
    (NavReturn(ret) /\ ret.nav.goal_id \in {"leave_the_truck", "exit_player_house"})
    => /\ ret.action \notin {"A", "B", "START", "SELECT"}
       /\ ret.nav.proposed \notin Directions
          => IF ret.nav.walkable # <<>>
             THEN ret.action \in WalkableSet(ret.nav.walkable)
             ELSE ret.action = "WAIT"
\* C32 (empty walkable set): when no direction is walkable and the action
\* is a direction that no override touches (no recommended direction, goal
\* other than go_upstairs), the MAP navigation path returns WAIT for a
\* movement-only goal and A otherwise, never the direction itself.
C32_EmptyWalkable ==
    (/\ NavReturn(ret)
     /\ ret.nav.walkable = <<>>
     /\ ret.nav.proposed \in Directions
     /\ ret.nav.recommended = None
     /\ ret.nav.goal_id # "go_upstairs")
    => ret.action = IF ret.nav.goal_id \in {"leave_the_truck", "exit_player_house"}
                    THEN "WAIT" ELSE "A"
\* C33 (reply parsing): for every reply and every count, 0 included,
\* _parse_actions returns a list of one to three tokens, each a button of
\* the eight; an empty reply and an unknown word give [A].
C33_ParseTotal ==
    ret.op = "_parse_actions"
    => /\ Len(ret.parsed) \in 1..3
       /\ \A i \in 1..Len(ret.parsed) : ret.parsed[i] \in VALID_BUTTONS
       /\ (\/ ret.input.reply.form = "none"
           \/ ret.input.reply = Reply("text", << Text("token", "x", 0) >>))
          => ret.parsed = << "A" >>

HasFailed(fm, c, d) == \E i \in 1..Len(fm[c]) : fm[c][i] = d

\* C34: a direction is recorded as failed for a tile only by the memory
\* update of a step in which that direction was executed on that tile and
\* left the player on it.
C34_RealFailures ==
    [][\A c \in Coords, d \in Directions :
          (HasFailed(failed_movements', c, d) /\ ~HasFailed(failed_movements, c, d))
          => /\ hist.world.dir = d
             /\ hist.world.at = c
             /\ ~hist.world.moved]_vars

\* C35: when decide returned WAIT, action_step produces no button for the
\* step.
C35_WaitNoPress ==
    (ret.op = "action_step" /\ ret.action = "WAIT") => ret.parsed = <<>>

\* C36: whenever a goal of the openai plan is the active goal, there is an
\* observation with which update_goal_status completes it without raising.
C36_Completable ==
    OaGetActiveGoal(oa.status) # 0
    => \E obs \in PlanObs :
          /\ ~OaRaises(OaGoalId(oa.status))
          /\ OaUpdateGoalStatus(oa.status, obs)[OaGetActiveGoal(oa.status)] = "completed"

\* C37: on a MAP step whose walkable list is not empty, a direction returned
\* by decide, whatever path produced it, is in the walkable list.
C37_NoBlockedMove ==
    (/\ ret.op = "decide" /\ ret.arg = "MAP"
     /\ hist.stepWalkable # <<>>
     /\ ret.action \in Directions)
    => ret.action \in WalkableSet(hist.stepWalkable)

\* C38: the MAP step in which decide enqueues the escape token, the step
\* that follows a dialogue or cutscene with a walkable list that is not
\* empty, returns a direction and not an A of the dialogue burst.
C38_EscapeFirst ==
    (ret.op = "decide" /\ ret.arg = "MAP" /\ hist.esc # None)
    => ret.action \in Directions

\* C39: with no location change, the action queue never holds more than 32
\* tokens.
C39_BoundedQueue == Len(queue) <= 32

\* C40: a module constructed while no save file exists has every goal of
\* its plan pending and no active goal.
C40_FreshPending ==
    (ret.op = "construct" /\ ~disk.exists)
    => /\ \A i \in 1..NGoals : status[i] = "pending"
       /\ current = 0
====
